---- MODULE Spec2Model ----
\* Reminder extraction and lifecycle of ReminderSetterAgent
\* (src/backend/agents/reminder_setter.py), and the chat operations that
\* MailManagementSystem (src/backend/main.py) offers next to it.
\*
\* Text that the code parses (the generation response, the action and the
\* date of a reminder, the formatted timestamps) is modelled as a sequence of
\* one-character strings, so that strip, upper, the regular expressions and
\* strftime are computed character by character as Python computes them.
\* Text the code only copies (an email's subject) is an opaque string.
EXTENDS Integers, Sequences, FiniteSets, TLC

\* ---------------------------------------------------------------- bounds

\* Number of reminders one agent creates in a run (caps reminder_id_counter).
MaxCreated == 2

\* Number of one-second steps of the system clock in a run.
MaxTicks == 1

\* A generation response is a concatenation of at most MaxFrags fragments.
MaxFrags == 4

\* Number of chat exchanges stored in a run, over both kinds of chat.
MaxChats == 1

\* The number of generate_text calls a run of SpecGenerate steps through.
MaxCalls == 2

\* The number of exchanges a run of SpecMemory stores in the general chat,
\* two more than the chatbot keeps.
MaxGeneralChats == 12

\* The number of exchanges a run stores in the chats about emails, one more
\* than the reply generator keeps for an email.
MaxEmailChats == 6

\* The exchanges held by the chats about emails, over all keys, in the runs
\* that use several keys.
MaxKeyChats == 3

\* The exchanges held by the general chat and the chats about emails together
\* in the runs that look at the context of a prompt.
MaxContextChats == 5

\* The waits of a run between the calls on an AuthSystem.
MaxWaits == 2

\* ------------------------------------------------------- Python str helpers

LowerLetters ==
  <<"a","b","c","d","e","f","g","h","i","j","k","l","m",
    "n","o","p","q","r","s","t","u","v","w","x","y","z">>

UpperLetters ==
  <<"A","B","C","D","E","F","G","H","I","J","K","L","M",
    "N","O","P","Q","R","S","T","U","V","W","X","Y","Z">>

\* The upper-case form of each lower-case ASCII letter.
UpperOf ==
  [c \in {LowerLetters[i] : i \in 1..Len(LowerLetters)} |->
     UpperLetters[CHOOSE i \in 1..Len(LowerLetters) : LowerLetters[i] = c]]

\* str.upper() on one character (ASCII letters).
UpperChar(c) == IF c \in DOMAIN UpperOf THEN UpperOf[c] ELSE c

\* str.upper()
Upper(s) == [i \in 1..Len(s) |-> UpperChar(s[i])]

\* The lower-case form of each upper-case ASCII letter.
LowerOf ==
  [c \in {UpperLetters[i] : i \in 1..Len(UpperLetters)} |->
     LowerLetters[CHOOSE i \in 1..Len(UpperLetters) : UpperLetters[i] = c]]

\* str.lower()
Lower(s) == [i \in 1..Len(s) |-> IF s[i] \in DOMAIN LowerOf THEN LowerOf[s[i]] ELSE s[i]]

\* The characters str.strip() removes and the regex class \s matches.
IsSpace(c) == c \in {" ", "\t", "\n", "\r", "\f"}

\* The least and the greatest element of a non-empty set of positions.
Min(S) == CHOOSE a \in S : \A b \in S : a <= b

Max(S) == CHOOSE a \in S : \A b \in S : a >= b

\* s from the first to the last of the positions `keep`.
Between(s, keep) == IF keep = {} THEN <<>> ELSE SubSeq(s, Min(keep), Max(keep))

\* str.strip(): drop leading and trailing whitespace.
Strip(s) == Between(s, {i \in 1..Len(s) : ~IsSpace(s[i])})

\* `kw in s` for str: kw occurs in s as a contiguous substring.
Contains(s, kw) ==
  \E i \in 1..(Len(s) - Len(kw) + 1) : SubSeq(s, i, i + Len(kw) - 1) = kw

\* A literal of a pattern compiled with re.IGNORECASE matches at position i.
MatchAtCI(s, i, kw) ==
  /\ i >= 1
  /\ i + Len(kw) - 1 <= Len(s)
  /\ \A j \in 1..Len(kw) : UpperChar(s[i + j - 1]) = UpperChar(kw[j])

\* ------------------------------------------------------------ the patterns

kwACTION == <<"A","C","T","I","O","N">>
kwDATE == <<"D","A","T","E">>
kwNO_ACTION == <<"N","O","_","A","C","T","I","O","N">>
kwTOMORROW == <<"T","O","M","O","R","R","O","W">>
kwASAP == <<"A","S","A","P">>
kwSOON == <<"S","O","O","N">>

\* The value of a failed re.search.
NoMatch == [matched |-> FALSE]

\* Where the group (.+) of  label:\s*(.+)  can start when the label is at i:
\* after the colon and any number of whitespace characters, on a character
\* that is not a newline.
GroupStarts(s, i, label) ==
  IF ~(MatchAtCI(s, i, label) /\ i + Len(label) <= Len(s) /\ s[i + Len(label)] = ":")
  THEN {}
  ELSE {p \in (i + Len(label) + 1)..Len(s) :
          /\ \A q \in (i + Len(label) + 1)..(p - 1) : IsSpace(s[q])
          /\ s[p] # "\n"}

\* The position before the first of the line breaks `brk`, or the end of s.
EndBefore(s, brk) == IF brk = {} THEN Len(s) ELSE Min(brk) - 1

\* (.+) from position p: to the end of the line, `.` matching all but "\n".
ToLineEnd(s, p) == SubSeq(s, p, EndBefore(s, {q \in p..Len(s) : s[q] = "\n"}))

\* The match at the leftmost of the positions `at` where the pattern matches;
\* \s* is greedy, so the group starts as late as it can.
MatchAmong(s, label, at) ==
  IF at = {} THEN NoMatch
  ELSE [matched |-> TRUE,
        group |-> ToLineEnd(s, Max(GroupStarts(s, Min(at), label)))]

\* re.search(r'<label>:\s*(.+)', s, re.IGNORECASE)
LabelSearch(s, label) ==
  MatchAmong(s, label, {i \in 1..Len(s) : GroupStarts(s, i, label) # {}})

\* re.split(r'[\n\r]', s)[0]
FirstLine(s) ==
  SubSeq(s, 1, EndBefore(s, {q \in 1..Len(s) : s[q] \in {"\n", "\r"}}))

\* The position after an optional colon at j.
SkipColon(s, j) == IF j <= Len(s) /\ s[j] = ":" THEN j + 1 ELSE j

\* re.sub(r'K1:?|K2:?|...', '', s, flags=re.IGNORECASE) from position i:
\* left to right, the first alternative that matches is removed together
\* with a colon that follows it; `hits` are the alternatives matching at i.
RECURSIVE ReSubFrom(_, _, _)
RECURSIVE ReSubStep(_, _, _, _)
ReSubStep(s, i, kws, hits) ==
  IF hits = {} THEN <<s[i]>> \o ReSubFrom(s, i + 1, kws)
  ELSE ReSubFrom(s, SkipColon(s, i + Len(kws[Min(hits)])), kws)

ReSubFrom(s, i, kws) ==
  IF i > Len(s) THEN <<>>
  ELSE ReSubStep(s, i, kws, {n \in 1..Len(kws) : MatchAtCI(s, i, kws[n])})

ReSub(s, kws) == ReSubFrom(s, 1, kws)

\* ------------------------------------------------- datetime and strftime

DigitChars == <<"0","1","2","3","4","5","6","7","8","9">>

Digit(n) == DigitChars[n + 1]

\* %m, %d, %H, %M, %S: two digits, zero padded.
Pad2(n) == <<Digit((n \div 10) % 10), Digit(n % 10)>>

\* %Y: four digits.
Pad4(n) == <<Digit((n \div 1000) % 10), Digit((n \div 100) % 10)>> \o Pad2(n % 100)

IsLeap(y) == (y % 4 = 0 /\ y % 100 # 0) \/ y % 400 = 0

DaysInMonth(y, m) ==
  IF m = 2 THEN (IF IsLeap(y) THEN 29 ELSE 28)
  ELSE IF m \in {4, 6, 9, 11} THEN 30 ELSE 31

\* t + datetime.timedelta(days=1); a datetime is [year, month, day, sod],
\* sod the second of the day.
AddDay(t) ==
  IF t.day < DaysInMonth(t.year, t.month) THEN [t EXCEPT !.day = @ + 1]
  ELSE IF t.month < 12 THEN [t EXCEPT !.day = 1, !.month = @ + 1]
  ELSE [t EXCEPT !.day = 1, !.month = 1, !.year = @ + 1]

\* The clock one second later.
AddSecond(t) ==
  IF t.sod + 1 < 24 * 60 * 60 THEN [t EXCEPT !.sod = @ + 1]
  ELSE AddDay([t EXCEPT !.sod = 0])

\* t.strftime('%Y-%m-%d')
StrfDate(t) == Pad4(t.year) \o <<"-">> \o Pad2(t.month) \o <<"-">> \o Pad2(t.day)

\* t.strftime('%Y-%m-%d %H:%M:%S')
StrfDateTime(t) ==
  StrfDate(t) \o <<" ">> \o Pad2(t.sod \div 3600) \o <<":">>
    \o Pad2((t.sod \div 60) % 60) \o <<":">> \o Pad2(t.sod % 60)

\* t.isoformat(); the clock is kept to the second, and isoformat leaves a
\* zero microsecond out.
IsoFormat(t) ==
  StrfDate(t) \o <<"T">> \o Pad2(t.sod \div 3600) \o <<":">>
    \o Pad2((t.sod \div 60) % 60) \o <<":">> \o Pad2(t.sod % 60)

\* ------------------------------------------------------ Python values

\* Python's None.
None == [py |-> "None"]

\* A dict passed as an argument: d is the function from its keys.
Dict(d) == [py |-> "dict", d |-> d]

\* Truthiness of an argument that is None or a dict.
Truthy(v) == v.py = "dict" /\ DOMAIN v.d # {}

\* dict.get(key, default)
Get(d, key, default) == IF key \in DOMAIN d THEN d[key] ELSE default

\* ------------------------------------------------ extract_reminder_info

\* Mutant: without a DATE: match the date text is left empty.
ParseMatches_no_default_date(action_match, date_match) ==
  IF action_match.matched
  THEN [kind |-> "action",
        action |->
          Strip(ReSub(FirstLine(Strip(action_match.group)), <<kwACTION, kwDATE>>)),
        date |->
          IF date_match.matched
          THEN Strip(ReSub(Strip(date_match.group), <<kwDATE>>))
          ELSE <<>>]
  ELSE [kind |-> "no_match"]

\* Mutant: a response with a DATE: match and no ACTION: match gets the action
\* that set_reminder falls back on.
ParseMatches_default_action(action_match, date_match) ==
  IF action_match.matched \/ date_match.matched
  THEN [kind |-> "action",
        action |->
          IF action_match.matched
          THEN Strip(ReSub(FirstLine(Strip(action_match.group)), <<kwACTION, kwDATE>>))
          ELSE <<"F","o","l","l","o","w"," ","u","p">>,
        date |->
          IF date_match.matched
          THEN Strip(ReSub(Strip(date_match.group), <<kwDATE>>))
          ELSE kwTOMORROW]
  ELSE [kind |-> "no_match"]

\* Lines 53-62 and 75: the cleaned action and the date text of the two
\* matches, before the defaulting of lines 65-67; no_match without an action.
ParseMatches(action_match, date_match) ==
  IF action_match.matched
  THEN [kind |-> "action",
        action |->
          Strip(ReSub(FirstLine(Strip(action_match.group)), <<kwACTION, kwDATE>>)),
        date |->
          IF date_match.matched
          THEN Strip(ReSub(Strip(date_match.group), <<kwDATE>>))
          ELSE kwTOMORROW]
  ELSE [kind |-> "no_match"]

\* Mutant: the NO_ACTION test is made on the response as it is, without
\* upper().
ParseStripped_case_sensitive(response) ==
  IF Contains(response, kwNO_ACTION) THEN [kind |-> "no_action"]
  ELSE ParseMatches(LabelSearch(response, kwACTION), LabelSearch(response, kwDATE))

\* Lines 46-51: the NO_ACTION test on the upper-cased response comes first.
ParseStripped(response) ==
  IF Contains(Upper(response), kwNO_ACTION) THEN [kind |-> "no_action"]
  ELSE ParseMatches(LabelSearch(response, kwACTION), LabelSearch(response, kwDATE))

\* Lines 44-62: what the text returned by generate_text is parsed into.
ParseResponse(raw) == ParseStripped(Strip(raw))

\* ------------------------------------------------------------- the state

VARIABLES
  reminders,            \* self.reminders: the list of reminder dicts
  reminder_id_counter,  \* self.reminder_id_counter
  current_emails,       \* MailManagementSystem.current_emails
  now,                  \* datetime.datetime.now(), to the second
  endpoint_text,        \* what self.gemini.generate_text returns when called
  chat_history,         \* ChatbotAgent.chat_history
  chat_histories,       \* ReplyGeneratorAgent.chat_histories, by email_index
  agent_ret,            \* history: the last call on a chat or content agent and its result
  chat_log,             \* history: every entry appended to a chat history, by conversation
  gen_pc,               \* generate_text: "idle", "try" (in the loop), "returned", "raised"
  gen_caller,           \* the email_index of the set_reminder call waiting for the text
  attempt,              \* generate_text: the loop variable
  gen_ret,              \* generate_text: the value returned
  slept,                \* history: the wait_time of every time.sleep of the call
  outcomes,             \* history: what the endpoint did at every attempt of the call
  gen_calls,            \* history: the number of generate_text calls stepped through
  ticks,                \* history: seconds the clock has advanced
  created,              \* history: the ids given to reminders, in creation order
  last,                 \* history: the last call on the reminder agent and its result
  users_file,           \* the users of users.json, the file every AuthSystem reads and writes
  auth_users,           \* AuthSystem.users, by session
  otp_storage,          \* AuthSystem.otp_storage, by session
  auth_now,             \* datetime.now().timestamp(), in seconds after the start
  auth_ret,             \* history: the last call on an AuthSystem and its result
  registered            \* history: the emails whose registration succeeded and was not deleted

vars ==
  <<reminders, reminder_id_counter, current_emails, now, endpoint_text,
    chat_history, chat_histories, agent_ret, chat_log, gen_pc, gen_caller, attempt, gen_ret, slept,
    outcomes, gen_calls, ticks, created, last,
    users_file, auth_users, otp_storage, auth_now, auth_ret, registered>>

\* The state of the two chat agents and the histories of their calls.
chats == <<chat_history, chat_histories, agent_ret, chat_log>>

\* The state of a generate_text call.
gen == <<gen_pc, gen_caller, attempt, gen_ret, slept, outcomes, gen_calls>>

\* The users file, the state of every session's AuthSystem and the history
\* of their calls.
auth == <<users_file, auth_users, otp_storage, auth_now, auth_ret, registered>>

\* self.use_uuid is set to False in __init__ and never assigned again, so an
\* id is always the counter's value.
use_uuid == FALSE

\* ------------------------------------------------------------- the inputs

\* Emails as EmailClient.fetch_emails hands them over; the second message had
\* no subject, for which the client writes "No Subject".
Emails ==
  { [subject |-> "Meeting Friday", from |-> "boss@co.com"],
    [subject |-> "No Subject", from |-> "news@co.com"] }

\* custom_reminder arguments: None (the default), an empty dict, a complete
\* action/date pair, and a dict whose action is the empty string.
CustomReminders ==
  { None,
    Dict([k \in {} |-> <<>>]),
    Dict([action |-> <<"C","a","l","l"," ","B","o","b">>, date |-> <<"F","r","i","d","a","y">>]),
    Dict([action |-> <<>>]) }

\* The custom_reminder arguments the frontend sends: None, which leads to an
\* extraction, and the complete action/date pair of its form.
FormReminders == {c \in CustomReminders : c = None \/ "date" \in DOMAIN c.d}

\* Texts the generation endpoint returns in the runs of Spec.
SampleReplies ==
  { <<"N","O","_","A","C","T","I","O","N">>,
    <<"A","C","T","I","O","N",":"," ","P","a","y"," ","r","e","n","t","\n","D","A","T","E",":"," ","A","S","A","P">>,
    <<"A","C","T","I","O","N",":"," ","D","A","T","E",":">>,
    <<"T","h","a","n","k","s"," ","f","o","r"," ","t","h","e"," ","u","p","d","a","t","e",".">> }

\* Pieces of a response: the tokens and labels of the prompt's protocol, a
\* line break and free text.
Fragments ==
  << <<"N","O","_","A","C","T","I","O","N">>,
     <<"n","o","_","A","c","t","i","o","n">>,
     <<"A","C","T","I","O","N",":"," ">>,
     <<"D","A","T","E",":"," ">>,
     <<"\n">>,
     <<"P","a","y">> >>

\* The concatenations of exactly n fragments.
RECURSIVE FragmentTexts(_)
FragmentTexts(n) ==
  IF n = 0 THEN {<<>>}
  ELSE {t \o Fragments[i] : t \in FragmentTexts(n - 1), i \in 1..Len(Fragments)}

\* The concatenations of at most n fragments.
FragmentReplies(n) == UNION {FragmentTexts(k) : k \in 0..n}

\* Action texts of a response in the format the prompt asks for.
ActionTexts ==
  { <<"R","e","v","i","e","w"," ","b","u","d","g","e","t"," ","r","e","p","o","r","t">>,
    <<"U","p","d","a","t","e"," ","r","e","p","o","r","t">> }

\* Date texts that are no keyword, and date texts that resolve to ASAP, SOON
\* or the empty text.
PlainDates ==
  { <<"2","0","2","5","-","0","9","-","3","0">>,
    <<"T","h","i","s"," ","F","r","i","d","a","y">> }

KeywordDates == { <<"A","S","A","P">>, <<"s","o","o","n">>, <<"D","A","T","E">> }

\* The response with the action on one line and the date on the next.
TwoLines(a, d) == kwACTION \o <<":", " ">> \o a \o <<"\n">> \o kwDATE \o <<":", " ">> \o d

\* The response with both labels on one line, the first example of the prompt.
OneLine == <<"A","C","T","I","O","N",":"," ","A","t","t","e","n","d"," ","m","e","e","t","i","n","g"," ","D","A","T","E",":"," ","T","h","i","s"," ","F","r","i","d","a","y">>

\* Texts the generation endpoint returns in the runs of SpecLines.
LineReplies ==
  {TwoLines(a, d) : a \in ActionTexts, d \in PlainDates \cup KeywordDates}
    \cup {OneLine}

\* ------------------------------------------------- the generation client

\* generate_text(self, prompt, max_tokens=500, max_retries=3): no caller
\* passes max_retries.
max_retries == 3

\* The markers of a quota error: "429" and "quota".
kw429 == <<"4","2","9">>

kwQuota == <<"q","u","o","t","a">>

\* Mutant: the word quota is looked for in the error text as it is written.
QuotaMarked_case_sensitive(error_str) ==
  Contains(error_str, kw429) \/ Contains(error_str, kwQuota)

\* Line 53: "429" in error_str or "quota" in error_str.lower()
QuotaMarked(error_str) == Contains(error_str, kw429) \/ Contains(Lower(error_str), kwQuota)

\* Line 60: the text returned when the last attempt hits the quota.
QuotaExceeded ==
  <<"A","I"," ","q","u","o","t","a"," ","e","x","c","e","e","d","e","d"," ","(","4","2","9",")",
    "."," ","U","p","g","r","a","d","e"," ","t","o"," ","p","a","i","d"," ","t","i","e","r"," ",
    "o","r"," ","w","a","i","t"," ","2","4","h","."," ","T","i","p",":"," ","U","s","e"," ","f",
    "e","w","e","r"," ","e","m","a","i","l","s"," ","t","o"," ","r","e","d","u","c","e"," ","c",
    "a","l","l","s",".">>

\* Line 63: f"AI service unavailable: {error_str}"
ServiceUnavailable(error_str) ==
  <<"A","I"," ","s","e","r","v","i","c","e"," ","u","n","a","v","a","i","l","a","b","l","e",":",
    " ">> \o error_str

\* Line 65: the text returned when the loop ends without a return.
MaxRetriesExceeded ==
  <<"M","a","x"," ","r","e","t","r","i","e","s"," ","e","x","c","e","e","d","e","d"," ","d","u",
    "e"," ","t","o"," ","q","u","o","t","a"," ","i","s","s","u","e","s","."," ","P","l","e","a",
    "s","e"," ","c","h","e","c","k"," ","y","o","u","r"," ","A","P","I"," ","l","i","m","i","t",
    "s",".">>

\* str(e) of the quota errors generate_content raises in the runs: one
\* marked by "429" only and one by "Quota" only.
QuotaErrors ==
  { <<"4","2","9"," ","l","i","m","i","t">>,
    <<"Q","u","o","t","a"," ","h","i","t">> }

\* str(e) of the other exceptions generate_content raises in the runs: a
\* missing model and a rejected request whose message quotes a field name.
OtherErrors ==
  { <<"4","0","4"," ","n","o"," ","m","o","d","e","l">>,
    <<"B","a","d"," ","a","c","t","i","o","n",":"," ","r","e","t","r","y">> }

ErrorTexts == QuotaErrors \cup OtherErrors

\* response.text of the responses generate_content returns in the runs: two
\* answers to the reminder prompt, and a generated text that reads like the
\* advisory of line 60.
ResponseTexts ==
  { <<" ","N","O","_","A","C","T","I","O","N","\n">>,
    <<"A","C","T","I","O","N",":"," ","P","a","y"," ","r","e","n","t","\n","D","A","T","E",":"," ",
  "A","S","A","P">>,
    QuotaExceeded }

\* What one call of generate_content does: it returns a response or raises.
Outcomes ==
  {[ok |-> TRUE, text |-> t] : t \in ResponseTexts}
    \cup {[ok |-> FALSE, text |-> e] : e \in ErrorTexts}

\* The values generate_text returns from its except clause.
FailureResults == {QuotaExceeded} \cup {ServiceUnavailable(e) : e \in ErrorTexts}

\* Every value generate_text returns in the runs of SpecGenerate.
GeneratedTexts ==
  {Strip(t) : t \in ResponseTexts}
    \cup {QuotaExceeded, MaxRetriesExceeded}
    \cup {ServiceUnavailable(e) : e \in ErrorTexts}

\* Every text the endpoint returns in some run.
EndpointTexts ==
  SampleReplies \cup FragmentReplies(MaxFrags) \cup LineReplies \cup GeneratedTexts

\* The ids mark_completed is called with: every id the run can give out, one
\* below and one above.
ReminderIds == 0..(MaxCreated + 1)

\* ParseResponse, tabulated over the texts the endpoint returns in the runs.
Parsed == [raw \in EndpointTexts |-> ParseResponse(raw)]

\* Mutant: the date text is upper-cased for the keyword test and kept so.
ReminderInfo_uppercases_date(subject, p, t) ==
  IF p.kind = "action"
  THEN [action |-> p.action,
        date |-> IF p.date = <<>> \/ Upper(p.date) \in {kwASAP, kwSOON}
                 THEN StrfDate(AddDay(t))
                 ELSE Upper(p.date),
        email_subject |-> subject]
  ELSE None

\* Mutant: the keyword test is made without upper().
ReminderInfo_case_sensitive(subject, p, t) ==
  IF p.kind = "action"
  THEN [action |-> p.action,
        date |-> IF p.date = <<>> \/ p.date \in {kwASAP, kwSOON}
                 THEN StrfDate(AddDay(t))
                 ELSE p.date,
        email_subject |-> subject]
  ELSE None

\* Lines 65-73: the dict returned for a parsed response p at clock t.
ReminderInfo(subject, p, t) ==
  IF p.kind = "action"
  THEN [action |-> p.action,
        date |-> IF p.date = <<>> \/ Upper(p.date) \in {kwASAP, kwSOON}
                 THEN StrfDate(AddDay(t))
                 ELSE p.date,
        email_subject |-> subject]
  ELSE None

\* The result of extract_reminder_info when the generation call returned
\* `raw` and the clock reads `t`: None, or the dict of action, date, subject.
extract_reminder_info(email_content, raw, t) ==
  ReminderInfo(Get(email_content, "subject", "No subject"), Parsed[raw], t)

\* ---------------------------------------------------------------- __init__

\* The constructors of ReminderSetterAgent, ChatbotAgent and
\* ReplyGeneratorAgent, called by MailManagementSystem.__init__.
InitAgent ==
  /\ reminders = <<>>
  /\ reminder_id_counter = 1
  /\ chat_history = <<>>
  /\ chat_histories = [k \in {} |-> <<>>]
  /\ chat_log = [general |-> <<>>, email |-> [k \in {} |-> <<>>]]
  /\ gen_pc = "idle"
  /\ gen_caller = 0
  /\ attempt = 0
  /\ gen_ret = None
  /\ slept = <<>>
  /\ outcomes = <<>>
  /\ gen_calls = 0
  /\ ticks = 0
  /\ created = <<>>
  /\ last = [call |-> [op |-> "__init__"], ret |-> None]
  /\ agent_ret = [op |-> "__init__", ret |-> None]
  /\ users_file = [e \in {} |-> None]
  /\ auth_users = [s \in {1} |-> [e \in {} |-> None]]
  /\ otp_storage = [s \in {1} |-> [e \in {} |-> None]]
  /\ auth_now = 0
  /\ auth_ret = [op |-> "__init__", ret |-> None]
  /\ registered = {}

\* The instant the runs start at: one second before a month ends.
StartTime == [year |-> 2025, month |-> 9, day |-> 30, sod |-> 24 * 60 * 60 - 1]

\* A run of Spec: the mailbox holds one email and the endpoint answers every
\* prompt of the run with one of the sample replies.
Init ==
  /\ InitAgent
  /\ now = StartTime
  /\ current_emails \in {<<e>> : e \in Emails}
  /\ endpoint_text \in SampleReplies

\* A run of SpecExtract: the endpoint answers with any text made of at most
\* MaxFrags fragments.
InitExtract ==
  /\ InitAgent
  /\ now = StartTime
  /\ current_emails \in {<<e>> : e \in Emails}
  /\ endpoint_text \in FragmentReplies(MaxFrags)

\* ------------------------------------------------------------ environment

\* The system clock advances by one second.
Tick ==
  /\ ticks < MaxTicks
  /\ now' = AddSecond(now)
  /\ ticks' = ticks + 1
  /\ UNCHANGED <<chats, gen, reminders, reminder_id_counter, current_emails, auth, endpoint_text,
                 created, last>>

\* ----------------------------------------------------------- the operations

\* Mutant: the counter is advanced before the reminder takes its id from it.
StoreReminder_counter_first(email_content, custom_reminder, from_custom, reminder_info) ==
  LET call == [op |-> "set_reminder", email |-> email_content,
               custom |-> custom_reminder, generated |-> ~from_custom,
               response |-> IF from_custom THEN <<>> ELSE endpoint_text]
      reminder ==
        [id |-> reminder_id_counter + 1,
         email_subject |-> Get(email_content, "subject", "No subject"),
         action |-> Get(reminder_info, "action", <<"F","o","l","l","o","w"," ","u","p"," ","o","n"," ","e","m","a","i","l">>),
         date |-> Get(reminder_info, "date", kwTOMORROW),
         created_at |-> StrfDateTime(now),
         completed |-> FALSE]
  IN  IF ~from_custom /\ reminder_info = None
      THEN /\ last' = [call |-> call, ret |-> None]
           /\ UNCHANGED <<chats, reminders, reminder_id_counter, current_emails, auth, now,
                          endpoint_text, ticks, created>>
      ELSE /\ reminder_id_counter <= MaxCreated
           /\ reminder_id_counter' = reminder_id_counter + 1
           /\ reminders' = Append(reminders, reminder)
           /\ created' = Append(created, reminder.id)
           /\ last' = [call |-> call, ret |-> reminder]
           /\ UNCHANGED <<chats, current_emails, auth, now, endpoint_text, ticks>>

\* Lines 88-112 of set_reminder, reminder_info being the custom dict or the
\* result of extract_reminder_info.
StoreReminder(email_content, custom_reminder, from_custom, reminder_info) ==
  LET call == [op |-> "set_reminder", email |-> email_content,
               custom |-> custom_reminder, generated |-> ~from_custom,
               response |-> IF from_custom THEN <<>> ELSE endpoint_text]
      reminder ==
        [id |-> reminder_id_counter,
         email_subject |-> Get(email_content, "subject", "No subject"),
         action |-> Get(reminder_info, "action", <<"F","o","l","l","o","w"," ","u","p"," ","o","n"," ","e","m","a","i","l">>),
         date |-> Get(reminder_info, "date", kwTOMORROW),
         created_at |-> StrfDateTime(now),
         completed |-> FALSE]
  IN  IF ~from_custom /\ reminder_info = None
      THEN /\ last' = [call |-> call, ret |-> None]
           /\ UNCHANGED <<chats, reminders, reminder_id_counter, current_emails, auth, now,
                          endpoint_text, ticks, created>>
      ELSE /\ reminder_id_counter <= MaxCreated
           /\ reminder_id_counter' =
                IF ~use_uuid THEN reminder_id_counter + 1 ELSE reminder_id_counter
           /\ reminders' = Append(reminders, reminder)
           /\ created' = Append(created, reminder.id)
           /\ last' = [call |-> call, ret |-> reminder]
           /\ UNCHANGED <<chats, current_emails, auth, now, endpoint_text, ticks>>

\* A custom_reminder that is a non-empty str: it is truthy and has no get,
\* so line 94 raises AttributeError inside the try of set_reminder.
CustomRaises(custom_reminder) ==
  custom_reminder.py = "str" /\ custom_reminder.s # <<>>

\* Lines 110-112 of set_reminder: the except clause returns None.
CaughtError(email_content, custom_reminder) ==
  [call |-> [op |-> "set_reminder", email |-> email_content,
             custom |-> custom_reminder, generated |-> FALSE, response |-> <<>>],
   ret |-> None]

\* Mutant: the counter is advanced before the reminder is built, so a call
\* that ends in the except clause has used up an id.
set_reminder_counts_failures(email_content, custom_reminder) ==
  IF CustomRaises(custom_reminder)
  THEN /\ reminder_id_counter <= MaxCreated
       /\ reminder_id_counter' = reminder_id_counter + 1
       /\ last' = CaughtError(email_content, custom_reminder)
       /\ UNCHANGED <<chats, gen, reminders, current_emails, auth, now,
                      endpoint_text, ticks, created>>
  ELSE /\ StoreReminder(email_content, custom_reminder, Truthy(custom_reminder),
                        IF Truthy(custom_reminder) THEN custom_reminder.d
                        ELSE extract_reminder_info(email_content, endpoint_text, now))
       /\ UNCHANGED gen

\* set_reminder(email_content, custom_reminder)
set_reminder(email_content, custom_reminder) ==
  IF CustomRaises(custom_reminder)
  THEN /\ last' = CaughtError(email_content, custom_reminder)
       /\ UNCHANGED <<chats, gen, reminders, reminder_id_counter, current_emails, auth, now,
                      endpoint_text, ticks, created>>
  ELSE /\ StoreReminder(email_content, custom_reminder, Truthy(custom_reminder),
                        IF Truthy(custom_reminder) THEN custom_reminder.d
                        ELSE extract_reminder_info(email_content, endpoint_text, now))
       /\ UNCHANGED gen

\* Mutant: the call returns the reminders that are not completed.
get_reminders_pending_only ==
  /\ last' = [call |-> [op |-> "get_reminders"],
              ret |-> SelectSeq(reminders, LAMBDA r : ~r.completed)]
  /\ UNCHANGED <<chats, gen, reminders, reminder_id_counter, current_emails, auth, now,
                 endpoint_text, ticks, created>>

\* get_reminders()
get_reminders ==
  /\ last' = [call |-> [op |-> "get_reminders"], ret |-> reminders]
  /\ UNCHANGED <<chats, gen, reminders, reminder_id_counter, current_emails, auth, now,
                 endpoint_text, ticks, created>>

\* The effect of mark_completed when reminder i has the id: `update` holds
\* the keys the call assigns.
MarkAt(reminder_id, i, update) ==
  /\ reminders' = [reminders EXCEPT ![i] = update @@ @]
  /\ last' = [call |-> [op |-> "mark_completed", reminder_id |-> reminder_id,
                        was_completed |-> reminders[i].completed],
              ret |-> TRUE]
  /\ UNCHANGED <<chats, gen, reminder_id_counter, current_emails, auth, now, endpoint_text,
                 ticks, created>>

\* The effect of mark_completed when no reminder has the id.
MarkMissing(reminder_id) ==
  /\ last' = [call |-> [op |-> "mark_completed", reminder_id |-> reminder_id,
                        was_completed |-> FALSE],
              ret |-> FALSE]
  /\ UNCHANGED <<chats, gen, reminders, reminder_id_counter, current_emails, auth, now,
                 endpoint_text, ticks, created>>

\* The list positions of the reminders whose id is reminder_id.
Found(reminder_id) == {i \in 1..Len(reminders) : reminders[i].id = reminder_id}

\* Mutant: completed is set without stamping completed_at.
mark_completed_no_stamp(reminder_id) ==
  IF Found(reminder_id) # {}
  THEN MarkAt(reminder_id, Min(Found(reminder_id)), [completed |-> TRUE])
  ELSE MarkMissing(reminder_id)

\* Mutant: completed_at is stamped without setting completed.
mark_completed_stamp_only(reminder_id) ==
  IF Found(reminder_id) # {}
  THEN MarkAt(reminder_id, Min(Found(reminder_id)),
              [completed_at |-> StrfDateTime(now)])
  ELSE MarkMissing(reminder_id)

\* Mutant: the call toggles the flag instead of setting it.
mark_completed_toggle(reminder_id) ==
  IF Found(reminder_id) # {}
  THEN MarkAt(reminder_id, Min(Found(reminder_id)),
              [completed |-> ~reminders[Min(Found(reminder_id))].completed,
               completed_at |-> StrfDateTime(now)])
  ELSE MarkMissing(reminder_id)

\* Mutant: an id that no reminder has is taken as a position of the list.
mark_completed_by_index(reminder_id) ==
  IF Found(reminder_id) # {}
  THEN MarkAt(reminder_id, Min(Found(reminder_id)),
              [completed |-> TRUE, completed_at |-> StrfDateTime(now)])
  ELSE IF reminder_id \in 1..Len(reminders)
  THEN MarkAt(reminder_id, reminder_id,
              [completed |-> TRUE, completed_at |-> StrfDateTime(now)])
  ELSE MarkMissing(reminder_id)

\* mark_completed(reminder_id): the first reminder of the list with the id
\* gets completed and completed_at; the loop returns there.
mark_completed(reminder_id) ==
  IF Found(reminder_id) # {}
  THEN MarkAt(reminder_id, Min(Found(reminder_id)),
              [completed |-> TRUE, completed_at |-> StrfDateTime(now)])
  ELSE MarkMissing(reminder_id)

\* r.get('completed', False)
IsCompleted(r) == Get(r, "completed", FALSE)

\* The reminders clear_completed keeps.
Pending(rs) == SelectSeq(rs, LAMBDA r : ~IsCompleted(r))

\* Mutant: the pruning takes the counter back to the size of the list.
clear_completed_resets_counter ==
  /\ reminders' = Pending(reminders)
  /\ reminder_id_counter' = Len(Pending(reminders)) + 1
  /\ last' = [call |-> [op |-> "clear_completed"],
              ret |-> Len(reminders) - Len(Pending(reminders))]
  /\ UNCHANGED <<chats, gen, current_emails, auth, now, endpoint_text, ticks, created>>

\* Mutant: the call returns the number of reminders kept.
clear_completed_counts_kept ==
  /\ reminders' = Pending(reminders)
  /\ last' = [call |-> [op |-> "clear_completed"],
              ret |-> Len(Pending(reminders))]
  /\ UNCHANGED <<chats, gen, reminder_id_counter, current_emails, auth, now, endpoint_text,
                 ticks, created>>

\* Mutant: the reminders kept are renumbered from 1.
clear_completed_renumbers ==
  /\ reminders' = [i \in 1..Len(Pending(reminders)) |->
                     [Pending(reminders)[i] EXCEPT !.id = i]]
  /\ last' = [call |-> [op |-> "clear_completed"],
              ret |-> Len(reminders) - Len(Pending(reminders))]
  /\ UNCHANGED <<chats, gen, reminder_id_counter, current_emails, auth, now, endpoint_text,
                 ticks, created>>

\* clear_completed()
clear_completed ==
  /\ reminders' = Pending(reminders)
  /\ last' = [call |-> [op |-> "clear_completed"],
              ret |-> Len(reminders) - Len(Pending(reminders))]
  /\ UNCHANGED <<chats, gen, reminder_id_counter, current_emails, auth, now, endpoint_text,
                 ticks, created>>

\* ------------------------------------------------------ the chat operations

\* The messages of the user in the general chat: one asks for tips, one does
\* not.
ChatMessages ==
  { <<"A","n","y"," ","t","i","p","s","?">>,
    <<"h","e","l","l","o">> }

\* The questions of the user about an email.
EmailQuestions == { <<"W","h","o","?">> }

\* The exchanges stored by the two chat agents together.
StoredChats ==
  Len(chat_history)
    + (IF 0 \in DOMAIN chat_histories THEN Len(chat_histories[0]) ELSE 0)

\* Mutant: the first n entries are kept.
LastN_keeps_first(h, n) == IF Len(h) > n THEN SubSeq(h, 1, n) ELSE h

\* h[-n:]
LastN(h, n) == IF Len(h) > n THEN SubSeq(h, Len(h) - n + 1, Len(h)) ELSE h

\* The chat_entry dict of an exchange.
ChatEntry(message, response) ==
  [user |-> message, assistant |-> response, timestamp |-> IsoFormat(now)]

\* The history after the exchange is appended and the list is cut to its last
\* `keep` entries.
WithExchange(h, message, response, keep) ==
  LastN(Append(h, ChatEntry(message, response)), keep)

\* The history in the format of the frontend: for every entry the user's
\* message and then the assistant's answer.
StreamlitHistory(h) ==
  [k \in 1..(2 * Len(h)) |->
     IF k % 2 = 1 THEN [role |-> "user", content |-> h[(k + 1) \div 2].user]
     ELSE [role |-> "assistant", content |-> h[k \div 2].assistant]]

\* Mutant: the context is made of the first three exchanges of the history.
ConversationContext_first_three(h) ==
  [k \in 1..(IF Len(h) < 3 THEN Len(h) ELSE 3) |->
     [user |-> h[k].user, assistant |-> h[k].assistant]]

\* The part of a prompt built from the history: its last 3 exchanges.
ConversationContext(h) ==
  [k \in 1..Len(LastN(h, 3)) |->
     [user |-> LastN(h, 3)[k].user, assistant |-> LastN(h, 3)[k].assistant]]

\* str(n) of an int that is not negative.
RECURSIVE IntStr(_)
IntStr(n) == IF n < 10 THEN <<Digit(n)>> ELSE IntStr(n \div 10) \o <<Digit(n % 10)>>

\* get_email_stats(emails)['unread_count']: the emails without a true 'read'.
UnreadCount(emails) ==
  Cardinality({i \in 1..Len(emails) : ~Get(emails[i], "read", FALSE)})

\* Lines 15-20 of general_chat: the answer to a question about the numbers
\* of the mailbox, with the organizing tips when the message asks for them.
StatsReply(message, total, unread) ==
  <<"B","a","s","e","d"," ","o","n"," ","y","o","u","r"," ","r","e","c","e","n","t"," ","e","m",
    "a","i","l","s",":"," ","Y","o","u"," ","h","a","v","e"," ">> \o IntStr(unread)
    \o <<" ","u","n","r","e","a","d"," ","a","n","d"," ">> \o IntStr(total - unread)
    \o <<" ","r","e","a","d"," ","o","u","t"," ","o","f"," ">> \o IntStr(total)
    \o <<" ","t","o","t","a","l","."," ","T","i","p",":"," ","P","r","i","o","r","i","t","i","z",
      "e"," ","u","n","r","e","a","d"," ","b","y"," ","c","a","t","e","g","o","r","y"," ","(",
      "e",".","g",".",","," ","W","o","r","k","/","I","m","p","o","r","t","a","n","t",")",".">>
    \o (IF \/ Contains(Lower(message), <<"t","i","p">>)
           \/ Contains(Lower(message), <<"o","r","g","a","n","i","z","i","n","g">>)
        THEN
          <<"\n","\n","O","r","g","a","n","i","z","i","n","g"," ","T","i","p","s",":"," ","1",
            ")"," ","U","s","e"," ","l","a","b","e","l","s","/","f","o","l","d","e","r","s"," ",
            "f","o","r"," ","c","a","t","e","g","o","r","i","e","s","."," ","2",")"," ","S","e",
            "t"," ","a","u","t","o","-","r","u","l","e","s"," ","f","o","r"," ","n","e","w","s",
            "l","e","t","t","e","r","s","."," ","3",")"," ","U","n","s","u","b","s","c","r","i",
            "b","e"," ","f","r","o","m"," ","s","p","a","m"," ","s","o","u","r","c","e","s",".",
            " ","4",")"," ","S","c","h","e","d","u","l","e"," ","'","i","n","b","o","x"," ","z",
            "e","r","o","'"," ","t","i","m","e"," ","d","a","i","l","y",".">>
        ELSE <<>>)

\* Line 25 of general_chat: the answer to a message that asks for tips.
TipsReply ==
  <<"E","m","a","i","l"," ","O","r","g","a","n","i","z","i","n","g"," ","T","i","p","s",":"," ",
    "1",")"," ","C","a","t","e","g","o","r","i","z","e"," ","i","m","m","e","d","i","a","t","e",
    "l","y"," ","(","W","o","r","k","/","P","e","r","s","o","n","a","l",")","."," ","2",")"," ",
    "U","s","e"," ","s","e","a","r","c","h"," ","f","o","r"," ","q","u","i","c","k"," ","f","i",
    "n","d","s","."," ","3",")"," ","A","r","c","h","i","v","e","/","d","e","l","e","t","e"," ",
    "w","e","e","k","l","y","."," ","4",")"," ","S","e","t"," ","r","e","m","i","n","d","e","r",
    "s"," ","f","o","r"," ","a","c","t","i","o","n"," ","i","t","e","m","s","."," ","5",")"," ",
    "L","i","m","i","t"," ","i","n","b","o","x"," ","t","o"," ","5","0"," ","e","m","a","i","l",
    "s"," ","m","a","x",".">>

\* Lines 13-26 of general_chat: the message is answered on the spot, without
\* the endpoint, and nothing is stored.
AnswerLocally(message, response) ==
  /\ agent_ret' =
       [op |-> "general_chat", message |-> message, stored |-> FALSE,
        context |-> <<>>, raised |-> FALSE,
        ret |-> <<response, << [role |-> "user", content |-> message],
                               [role |-> "assistant", content |-> response] >> >>]
  /\ UNCHANGED <<chat_history, chat_histories, chat_log, gen, reminders,
                 reminder_id_counter, current_emails, auth, now, endpoint_text, ticks,
                 created, last>>

\* Mutant: a failure message of generate_text is raised as an exception
\* that no clause catches.
StoreChat_raises_on_failure(message, response) ==
  IF response \in FailureResults
  THEN /\ agent_ret' =
            [op |-> "general_chat", message |-> message, stored |-> FALSE,
             context |-> ConversationContext(chat_history), raised |-> TRUE,
             ret |-> <<response, <<>> >>]
       /\ UNCHANGED <<chat_history, chat_histories, chat_log, gen, reminders,
                      reminder_id_counter, current_emails, auth, now, endpoint_text, ticks,
                      created, last>>
  ELSE /\ chat_history' = WithExchange(chat_history, message, response, 10)
       /\ chat_log' = [chat_log EXCEPT !.general = Append(@, ChatEntry(message, response))]
       /\ agent_ret' =
            [op |-> "general_chat", message |-> message, stored |-> TRUE,
             context |-> ConversationContext(chat_history), raised |-> FALSE,
             ret |-> <<response, StreamlitHistory(chat_history')>>]
       /\ UNCHANGED <<chat_histories, gen, reminders, reminder_id_counter,
                      current_emails, auth, now, endpoint_text, ticks, created, last>>

\* Lines 28-65 of general_chat: the endpoint's answer is stored in the
\* history, of which the last 10 entries are kept.
StoreChat(message, response) ==
  /\ chat_history' = WithExchange(chat_history, message, response, 10)
  /\ chat_log' = [chat_log EXCEPT !.general = Append(@, ChatEntry(message, response))]
  /\ agent_ret' =
       [op |-> "general_chat", message |-> message, stored |-> TRUE,
        context |-> ConversationContext(chat_history), raised |-> FALSE,
        ret |-> <<response, StreamlitHistory(chat_history')>>]
  /\ UNCHANGED <<chat_histories, gen, reminders, reminder_id_counter, current_emails, auth,
                 now, endpoint_text, ticks, created, last>>

\* MailManagementSystem.general_chat(message), which calls
\* ChatbotAgent.general_chat with the numbers of the mailbox as context: a
\* message about the numbers or about tips is answered on the spot (lines
\* 13-26); any other goes to the endpoint. The message is a str and
\* generate_text returns a str whatever happens, so the except clause is not
\* reached.
general_chat(message) ==
  IF \/ Contains(Lower(message), <<"u","n","r","e","a","d">>)
     \/ Contains(Lower(message), <<"h","o","w"," ","m","a","n","y"," ","e","m","a","i","l","s">>)
  THEN AnswerLocally(message, StatsReply(message, Len(current_emails),
                                         UnreadCount(current_emails)))
  ELSE IF \/ Contains(Lower(message), <<"t","i","p">>)
          \/ Contains(Lower(message), <<"o","r","g","a","n","i","z","e">>)
       THEN AnswerLocally(message, TipsReply)
       ELSE StoreChat(message, Strip(endpoint_text))

\* An email_content whose body is None, as a caller of the agent can pass it;
\* EmailClient.fetch_emails never builds one.
BrokenEmail == [subject |-> "Draft", from |-> "me@co.com", body |-> None]

\* Line 115 of chat_with_email: the answer of the except clause.
ChatErrorMessage ==
  <<"I"," ","a","p","o","l","o","g","i","z","e",","," ","b","u","t"," ","I","'","m"," ","h","a",
    "v","i","n","g"," ","t","r","o","u","b","l","e"," ","p","r","o","c","e","s","s","i","n","g",
    " ","y","o","u","r"," ","r","e","q","u","e","s","t","."," ","P","l","e","a","s","e"," ","t",
    "r","y"," ","a","g","a","i","n",".">>

\* Lines 64-66 of chat_with_email raise: the email has a body that is None,
\* which cannot be sliced.
BodyRaises(email_content) ==
  "body" \in DOMAIN email_content /\ email_content.body = None

\* The histories and the return value after a chat_with_email call has
\* appended `entry` under email_index and kept the last `keep` entries.
StoreEmailChat(email_index, user_message, entry, keep, context, failed) ==
  /\ chat_histories' =
       (email_index :> LastN(Append(Get(chat_histories, email_index, <<>>), entry), keep))
         @@ chat_histories
  /\ chat_log' =
       [chat_log EXCEPT !.email =
          (email_index :> Append(Get(chat_log.email, email_index, <<>>), entry)) @@ @]
  /\ agent_ret' =
       [op |-> "chat_with_email", email_index |-> email_index,
        message |-> user_message, context |-> context, failed |-> failed,
        raised |-> FALSE,
        ret |-> <<entry.assistant, StreamlitHistory(chat_histories'[email_index])>>]
  /\ UNCHANGED <<chat_history, gen, reminders, reminder_id_counter, current_emails, auth,
                 now, endpoint_text, ticks, created, last>>

\* Mutant: a failure message of generate_text is returned and not stored.
chat_with_email_skips_failures(email_content, user_message, email_index) ==
  IF BodyRaises(email_content)
  THEN StoreEmailChat(email_index, user_message,
                      ChatEntry(user_message, ChatErrorMessage),
                      Len(Get(chat_histories, email_index, <<>>)) + 1, <<>>, TRUE)
  ELSE IF endpoint_text \in FailureResults
       THEN /\ agent_ret' =
                 [op |-> "chat_with_email", email_index |-> email_index,
                  message |-> user_message,
                  context |-> ConversationContext(Get(chat_histories, email_index, <<>>)),
                  failed |-> FALSE, raised |-> FALSE,
                  ret |-> <<Strip(endpoint_text),
                            StreamlitHistory(Get(chat_histories, email_index, <<>>))>>]
            /\ UNCHANGED <<chat_history, chat_histories, chat_log, gen, reminders,
                           reminder_id_counter, current_emails, auth, now, endpoint_text,
                           ticks, created, last>>
       ELSE StoreEmailChat(email_index, user_message,
                           ChatEntry(user_message, Strip(endpoint_text)), 5,
                           ConversationContext(Get(chat_histories, email_index, <<>>)),
                           FALSE)

\* ReplyGeneratorAgent.chat_with_email(email_content, user_message,
\* email_index): the endpoint's answer is stored under email_index and the
\* last 5 entries are kept (lines 64-112); when reading the email raises, the
\* except clause stores its apology under email_index (lines 114-133).
chat_with_email(email_content, user_message, email_index) ==
  IF BodyRaises(email_content)
  THEN StoreEmailChat(email_index, user_message,
                      ChatEntry(user_message, ChatErrorMessage),
                      Len(Get(chat_histories, email_index, <<>>)) + 1, <<>>, TRUE)
  ELSE StoreEmailChat(email_index, user_message,
                      ChatEntry(user_message, Strip(endpoint_text)), 5,
                      ConversationContext(Get(chat_histories, email_index, <<>>)), FALSE)

\* Line 124 of main.py: the answer to an index outside the mailbox.
InvalidEmailIndex ==
  <<"I","n","v","a","l","i","d"," ","e","m","a","i","l"," ","i","n","d","e","x">>

\* MailManagementSystem.chat_about_email(email_index, message); email_index
\* counts from 0. The call passes the email and the message on and leaves
\* the email_index of chat_with_email at its default, 0.
chat_about_email(email_index, message) ==
  IF 0 <= email_index /\ email_index < Len(current_emails)
  THEN chat_with_email(current_emails[email_index + 1], message, 0)
  ELSE /\ agent_ret' = [op |-> "chat_about_email", email_index |-> email_index,
                        message |-> message, context |-> <<>>, failed |-> FALSE,
                        ret |-> <<InvalidEmailIndex, <<>> >>]
       /\ UNCHANGED <<chat_history, chat_histories, chat_log, gen, reminders,
                      reminder_id_counter, current_emails, auth, now, endpoint_text, ticks,
                      created, last>>

\* Mutant: the lookup registers a key it has not seen (setdefault).
get_chat_history_registers_key(email_index) ==
  /\ agent_ret' = [op |-> "get_chat_history", email_index |-> email_index,
                   ret |-> Get(chat_histories, email_index, <<>>)]
  /\ chat_histories' = (IF email_index \in DOMAIN chat_histories THEN chat_histories
                        ELSE (email_index :> <<>>) @@ chat_histories)
  /\ UNCHANGED <<chat_history, chat_log, gen, reminders,
                 reminder_id_counter, current_emails, auth, now, endpoint_text, ticks,
                 created, last>>

\* get_chat_history(email_index)
get_chat_history(email_index) ==
  /\ agent_ret' = [op |-> "get_chat_history", email_index |-> email_index,
                   ret |-> Get(chat_histories, email_index, <<>>)]
  /\ UNCHANGED <<chat_history, chat_histories, chat_log, gen, reminders,
                 reminder_id_counter, current_emails, auth, now, endpoint_text, ticks,
                 created, last>>

\* clear_chat_history(email_index)
clear_chat_history(email_index) ==
  /\ IF email_index \in DOMAIN chat_histories
     THEN /\ chat_histories' = [chat_histories EXCEPT ![email_index] = <<>>]
          /\ chat_log' = [chat_log EXCEPT !.email = (email_index :> <<>>) @@ @]
          /\ agent_ret' = [op |-> "clear_chat_history", email_index |-> email_index,
                           ret |-> TRUE]
     ELSE /\ agent_ret' = [op |-> "clear_chat_history", email_index |-> email_index,
                           ret |-> FALSE]
          /\ UNCHANGED <<chat_histories, chat_log>>
  /\ UNCHANGED <<chat_history, gen, reminders, reminder_id_counter, current_emails, auth,
                 now, endpoint_text, ticks, created, last>>

\* ------------------------------------------------------- the content agents

\* The characters of the subjects and senders of the model's emails.
Chars ==
  ("Meeting Friday" :> <<"M","e","e","t","i","n","g"," ","F","r","i","d","a","y">>)
    @@ ("No Subject" :> <<"N","o"," ","S","u","b","j","e","c","t">>)
    @@ ("Draft" :> <<"D","r","a","f","t">>)
    @@ ("boss@co.com" :> <<"b","o","s","s","@","c","o",".","c","o","m">>)
    @@ ("news@co.com" :> <<"n","e","w","s","@","c","o",".","c","o","m">>)
    @@ ("me@co.com" :> <<"m","e","@","c","o",".","c","o","m">>)
    @@ ("Bob Lee <bob@co.com>" :> <<"B","o","b"," ","L","e","e"," ","<","b","o","b","@","c","o",".","c","o","m",">">>)

\* s[:n]
Take(s, n) == SubSeq(s, 1, IF Len(s) < n THEN Len(s) ELSE n)

\* s.startswith(prefix)
StartsWith(s, prefix) == Len(s) >= Len(prefix) /\ SubSeq(s, 1, Len(prefix)) = prefix

\* s.split(): the runs of characters that are no whitespace, in order.
WordAt(s, i) == SubSeq(s, i, EndBefore(s, {q \in i..Len(s) : IsSpace(s[q])}))

RECURSIVE WordsFrom(_, _)
WordsFrom(s, starts) ==
  IF starts = {} THEN <<>>
  ELSE <<WordAt(s, Min(starts))>> \o WordsFrom(s, starts \ {Min(starts)})

Split(s) ==
  WordsFrom(s, {i \in 1..Len(s) : ~IsSpace(s[i]) /\ (i = 1 \/ IsSpace(s[i - 1]))})

\* sep.join(words)
RECURSIVE Join(_, _)
Join(sep, words) ==
  IF words = <<>> THEN <<>>
  ELSE IF Len(words) = 1 THEN words[1]
  ELSE words[1] \o sep \o Join(sep, Tail(words))

\* Bodies of emails handed to the summarizer: words separated by runs of
\* whitespace, and a body of whitespace only.
SummaryBodies ==
  { <<"P","l","e","a","s","e"," "," ","j","o","i","n","\n","u","s"," ","a","t"," ","5">>,
    <<" ">> }

\* EmailSummarizerAgent.create_fallback_summary(subject, body)
create_fallback_summary(subject, body) ==
  LET preview == Join(<<" ">>, Take(Split(body), 30))
  IN  IF preview # <<>>
      THEN <<"E","m","a","i","l"," ","r","e","g","a","r","d","i","n","g"," ","'">> \o subject \o <<"'", ":", " ">> \o preview \o <<".", ".", ".">>
      ELSE <<"N","o"," ","c","o","n","t","e","n","t"," ","a","v","a","i","l","a","b","l","e",".">>

\* Lines 9-30 of summarize_email when generate_text returns `summary`: the
\* summary is returned unless its lower-case form holds "unavailable" or
\* "error". Subject and body are str, of which str() is the value itself.
SummaryOf(email_subject, email_body, summary) ==
  LET subject == IF email_subject = <<>> THEN <<"N","o"," ","s","u","b","j","e","c","t">> ELSE email_subject
      body == Take(IF email_body = <<>> THEN <<"N","o"," ","c","o","n","t","e","n","t">> ELSE email_body, 1500)
  IN  IF \/ Contains(Lower(summary), <<"u","n","a","v","a","i","l","a","b","l","e">>)
         \/ Contains(Lower(summary), <<"e","r","r","o","r">>)
      THEN create_fallback_summary(subject, body)
      ELSE summary

\* EmailSummarizerAgent.summarize_email(email_subject, email_body)
summarize_email(email_subject, email_body) ==
  /\ agent_ret' = [op |-> "summarize_email", subject |-> email_subject,
                   body |-> email_body, raised |-> FALSE,
                   ret |-> SummaryOf(email_subject, email_body, endpoint_text)]
  /\ UNCHANGED <<chat_history, chat_histories, chat_log, gen, reminders,
                 reminder_id_counter, current_emails, auth, now, endpoint_text, ticks,
                 created, last>>

\* Line 17 of generate_reply
valid_tones == {"professional", "casual", "friendly", "formal"}

\* The tone arguments: the default, one that greets with Hello, and one that
\* is not valid.
Tones == {"professional", "casual", "angry"}

\* Line 45 of generate_reply: the openings a reply is left with.
Greetings ==
  { <<"D","e","a","r">>, <<"H","e","l","l","o">>, <<"H","i">>, <<"T","h","a","n","k"," ","y","o","u">>, <<"T","h","a","n","k","s">> }

\* Lines 54-59 of generate_reply: the reply of the except clause.
CannedReply(subject) ==
  <<"T","h","a","n","k"," ","y","o","u"," ","f","o","r"," ","y","o","u","r"," ","e","m","a",
      "i","l"," ","r","e","g","a","r","d","i","n","g"," ","\"">>
    \o subject
    \o <<"\"",".","\n","\n","I"," ","h","a","v","e"," ","r","e","c","e","i","v","e","d"," ","y",
      "o","u","r"," ","m","e","s","s","a","g","e"," ","a","n","d"," ","w","i","l","l"," ","g",
      "e","t"," ","b","a","c","k"," ","t","o"," ","y","o","u"," ","s","h","o","r","t","l","y",
      ".","\n","\n","B","e","s","t"," ","r","e","g","a","r","d","s">>

\* Lines 38-42 of generate_reply: the response without the whitespace and the
\* double quotes around it.
CleanReply(response) ==
  LET reply == Strip(response)
  IN  IF StartsWith(reply, <<"\"">>) /\ reply[Len(reply)] = "\""
      THEN SubSeq(reply, 2, Len(reply) - 1)
      ELSE reply

\* Line 47: sender.split()[0] if ' ' in sender else sender; a sender of
\* spaces only has no first word and the IndexError ends in the except clause.
HasSpace(sender) == \E i \in 1..Len(sender) : sender[i] = " "

SenderRaises(sender) == HasSpace(sender) /\ Split(sender) = <<>>

Addressee(sender) == IF HasSpace(sender) THEN Split(sender)[1] ELSE sender

\* Lines 12-59 of generate_reply when generate_text returns `response`; the
\* emails have a subject and a sender, so the defaults of lines 13, 15 and 54
\* are not used.
ReplyOf(original_email, tone, response) ==
  LET sender == Chars[original_email.from]
      reply == CleanReply(response)
      t == IF tone \in valid_tones THEN tone ELSE "professional"
  IN  IF BodyRaises(original_email)
      THEN CannedReply(Chars[original_email.subject])
      ELSE IF \E g \in Greetings : StartsWith(reply, g) THEN reply
      ELSE IF t \in {"professional", "formal"}
           THEN IF SenderRaises(sender)
                THEN CannedReply(Chars[original_email.subject])
                ELSE <<"D","e","a","r"," ">> \o Addressee(sender) \o <<",", "\n", "\n">> \o reply
      ELSE <<"H","e","l","l","o",",","\n","\n">> \o reply

\* ReplyGeneratorAgent.generate_reply(original_email, tone)
generate_reply(original_email, tone) ==
  /\ agent_ret' = [op |-> "generate_reply", email |-> original_email,
                   tone |-> tone, raised |-> FALSE,
                   ret |-> ReplyOf(original_email, tone, endpoint_text)]
  /\ UNCHANGED <<chat_history, chat_histories, chat_log, gen, reminders,
                 reminder_id_counter, current_emails, auth, now, endpoint_text, ticks,
                 created, last>>

\* Mutant: the index is only checked against the length, so that a negative
\* index counts from the end of the mailbox as in a list subscript.
set_reminder_for_email_from_the_end(email_index, custom_reminder) ==
  IF email_index < Len(current_emails) /\ -Len(current_emails) <= email_index
  THEN set_reminder(current_emails[(email_index % Len(current_emails)) + 1], custom_reminder)
  ELSE /\ last' = [call |-> [op |-> "set_reminder_for_email",
                             email_index |-> email_index, custom |-> custom_reminder],
                   ret |-> None]
       /\ UNCHANGED <<chats, gen, reminders, reminder_id_counter, current_emails, auth, now,
                      endpoint_text, ticks, created>>

\* MailManagementSystem.set_reminder_for_email(email_index, custom_reminder)
set_reminder_for_email(email_index, custom_reminder) ==
  IF 0 <= email_index /\ email_index < Len(current_emails)
  THEN set_reminder(current_emails[email_index + 1], custom_reminder)
  ELSE /\ last' = [call |-> [op |-> "set_reminder_for_email",
                             email_index |-> email_index, custom |-> custom_reminder],
                   ret |-> None]
       /\ UNCHANGED <<chats, gen, reminders, reminder_id_counter, current_emails, auth, now,
                      endpoint_text, ticks, created>>

\* MailManagementSystem.generate_reply_for_email(email_index, tone)
generate_reply_for_email(email_index, tone) ==
  IF 0 <= email_index /\ email_index < Len(current_emails)
  THEN generate_reply(current_emails[email_index + 1], tone)
  ELSE /\ agent_ret' = [op |-> "generate_reply_for_email", email_index |-> email_index,
                        tone |-> tone, raised |-> FALSE, ret |-> InvalidEmailIndex]
       /\ UNCHANGED <<chat_history, chat_histories, chat_log, gen, reminders,
                      reminder_id_counter, current_emails, auth, now, endpoint_text, ticks,
                      created, last>>

\* ------------------------------------------------------------ generate_text

\* The clock after time.sleep(n), n being less than a day.
AddSeconds(t, n) ==
  IF t.sod + n < 24 * 60 * 60 THEN [t EXCEPT !.sod = @ + n]
  ELSE AddDay([t EXCEPT !.sod = @ + n - 24 * 60 * 60])

\* Line 55: wait_time = (2 ** attempt) * 30
wait_time(a) == (2 ^ a) * 30

\* Mutant: the last attempt sleeps as well before the loop ends.
OnError_sleeps_on_last_attempt(a, error_str) ==
  IF QuotaMarked(error_str)
  THEN IF a <= max_retries - 1
       THEN [pc |-> "try", sleep |-> <<wait_time(a)>>, ret |-> None]
       ELSE [pc |-> "returned", sleep |-> <<>>, ret |-> QuotaExceeded]
  ELSE [pc |-> "returned", sleep |-> <<>>, ret |-> ServiceUnavailable(error_str)]

\* Mutant: the first quota error is retried at once, the backoff starting at
\* the second.
OnError_no_first_wait(a, error_str) ==
  IF QuotaMarked(error_str)
  THEN IF a < max_retries - 1
       THEN [pc |-> "try", sleep |-> IF a = 0 THEN <<>> ELSE <<wait_time(a)>>,
             ret |-> None]
       ELSE [pc |-> "returned", sleep |-> <<>>, ret |-> QuotaExceeded]
  ELSE [pc |-> "returned", sleep |-> <<>>, ret |-> ServiceUnavailable(error_str)]

\* Mutant: every error is retried after a sleep until the last attempt.
OnError_retries_any_error(a, error_str) ==
  IF a < max_retries - 1
  THEN [pc |-> "try", sleep |-> <<wait_time(a)>>, ret |-> None]
  ELSE IF QuotaMarked(error_str)
       THEN [pc |-> "returned", sleep |-> <<>>, ret |-> QuotaExceeded]
       ELSE [pc |-> "returned", sleep |-> <<>>, ret |-> ServiceUnavailable(error_str)]

\* Mutant: an error that is no quota error is raised again.
OnError_reraises(a, error_str) ==
  IF QuotaMarked(error_str)
  THEN IF a < max_retries - 1
       THEN [pc |-> "try", sleep |-> <<wait_time(a)>>, ret |-> None]
       ELSE [pc |-> "returned", sleep |-> <<>>, ret |-> QuotaExceeded]
  ELSE [pc |-> "raised", sleep |-> <<>>, ret |-> None]

\* Lines 48-63, the except clause at loop variable a: the loop goes on after
\* a sleep, or the call returns.
OnError(a, error_str) ==
  IF QuotaMarked(error_str)
  THEN IF a < max_retries - 1
       THEN [pc |-> "try", sleep |-> <<wait_time(a)>>, ret |-> None]
       ELSE [pc |-> "returned", sleep |-> <<>>, ret |-> QuotaExceeded]
  ELSE [pc |-> "returned", sleep |-> <<>>, ret |-> ServiceUnavailable(error_str)]

\* Lines 31-63, the body of the loop when generate_content does `outcome`.
OnOutcome(a, outcome) ==
  IF outcome.ok
  THEN [pc |-> "returned", sleep |-> <<>>, ret |-> Strip(outcome.text)]
  ELSE OnError(a, outcome.text)

\* set_reminder_for_email(email_index) without a custom reminder, up to the
\* call of generate_text in extract_reminder_info and the start of its loop.
BeginSetReminder(email_index) ==
  /\ gen_pc = "idle"
  /\ gen_calls < MaxCalls
  /\ email_index \in 1..Len(current_emails)
  /\ gen_pc' = "try"
  /\ gen_caller' = email_index
  /\ attempt' = 0
  /\ gen_ret' = None
  /\ slept' = <<>>
  /\ outcomes' = <<>>
  /\ gen_calls' = gen_calls + 1
  /\ UNCHANGED <<chats, reminders, reminder_id_counter, current_emails, auth, now,
                 endpoint_text, ticks, created, last>>

\* Mutant: the loop is `while True`, its variable staying at 0, so a quota
\* error is always followed by a further attempt.
generate_text_attempt_while_true(outcome) ==
  /\ gen_pc = "try"
  /\ LET r == OnOutcome(0, outcome)
     IN  /\ outcomes' = Append(outcomes, outcome)
         /\ slept' = slept \o r.sleep
         /\ now' = IF r.sleep = <<>> THEN now ELSE AddSeconds(now, r.sleep[1])
         /\ attempt' = attempt
         /\ gen_pc' = r.pc
         /\ gen_ret' = r.ret
         /\ endpoint_text' = IF r.ret = None THEN endpoint_text ELSE r.ret
  /\ UNCHANGED <<chats, gen_caller, gen_calls, reminders, reminder_id_counter,
                 current_emails, auth, ticks, created, last>>

\* One pass of the loop of generate_text: the endpoint is called and does
\* `outcome`; a sleep advances the clock; when the loop variable leaves
\* range(max_retries) the call returns at line 65.
generate_text_attempt(outcome) ==
  /\ gen_pc = "try"
  /\ LET r == OnOutcome(attempt, outcome)
         exhausted == r.pc = "try" /\ attempt + 1 >= max_retries
         ret == IF exhausted THEN MaxRetriesExceeded ELSE r.ret
     IN  /\ outcomes' = Append(outcomes, outcome)
         /\ slept' = slept \o r.sleep
         /\ now' = IF r.sleep = <<>> THEN now ELSE AddSeconds(now, r.sleep[1])
         /\ attempt' = IF r.pc = "try" THEN attempt + 1 ELSE attempt
         /\ gen_pc' = IF exhausted THEN "returned" ELSE r.pc
         /\ gen_ret' = ret
         /\ endpoint_text' = IF ret = None THEN endpoint_text ELSE ret
  /\ UNCHANGED <<chats, gen_caller, gen_calls, reminders, reminder_id_counter,
                 current_emails, auth, ticks, created, last>>

\* set_reminder from the return of generate_text on: lines 44-79 of
\* extract_reminder_info, whose except clause turns an exception into None,
\* and lines 88-112 of set_reminder.
EndSetReminder ==
  /\ gen_pc \in {"returned", "raised"}
  /\ StoreReminder(current_emails[gen_caller], None, FALSE,
                   IF gen_pc = "raised" THEN None
                   ELSE extract_reminder_info(current_emails[gen_caller], endpoint_text, now))
  /\ gen_pc' = "idle"
  /\ gen_caller' = 0
  /\ UNCHANGED <<attempt, gen_ret, slept, outcomes, gen_calls>>

\* --------------------------------------------------------------- AuthSystem

\* Line 21: self.otp_expiry, in seconds.
otp_expiry == 300

\* The sessions of the application: init_state gives every session a
\* MailManagementSystem of its own, which constructs its own AuthSystem.
Sessions == 1..2

\* The emails typed into the forms: two addresses and a text that is none.
AuthEmails == { <<"a","@","b",".","c">>, <<"z","@","b",".","c">>, <<"a","b","c">> }

\* What generate_otp returns: str(random.randint(100000, 999999)).
Otps == {"100000", "999999"}

\* The passwords typed into the forms: one of six characters, one of three.
Passwords == { <<"s","e","c","r","e","t">>, <<"a","b","c">> }

\* del d[key]
Without(d, key) == [k \in DOMAIN d \ {key} |-> d[k]]

\* hash_password(password) with the salt secrets.token_hex gave: the salt and
\* the PBKDF2 digest, which is taken to differ for different passwords or
\* salts.
hash_password(password, salt) == [salt |-> salt, digest |-> <<password, salt>>]

\* verify_password(password, hashed_password): the digest is computed again
\* with the stored salt and compared with the stored one.
verify_password(password, hashed_password) ==
  <<password, hashed_password.salt>> = hashed_password.digest

\* The variables no call on an AuthSystem changes.
agents ==
  <<chats, gen, reminders, reminder_id_counter, current_emails, now, endpoint_text,
    ticks, created, last>>

\* init_state() in a new session: MailManagementSystem() constructs
\* AuthSystem(), whose __init__ loads the users from the file.
init_state(s) ==
  /\ s \notin DOMAIN auth_users
  /\ auth_users' = (s :> users_file) @@ auth_users
  /\ otp_storage' = (s :> [e \in {} |-> None]) @@ otp_storage
  /\ auth_ret' = [op |-> "init_state", session |-> s, ret |-> None]
  /\ UNCHANGED <<users_file, auth_now, registered, agents>>

\* Time passes: a little over half of otp_expiry.
AuthWait ==
  /\ auth_now < MaxWaits * (otp_expiry \div 2 + 1)
  /\ auth_now' = auth_now + otp_expiry \div 2 + 1
  /\ UNCHANGED <<users_file, auth_users, otp_storage, auth_ret, registered, agents>>

\* initiate_registration(email) in session s, also called as resend_otp(email);
\* otp is what generate_otp returns and sent what send_otp_email returns.
initiate_registration(s, email, otp, sent) ==
  /\ s \in DOMAIN auth_users
  /\ IF ~Contains(email, <<"@">>) \/ ~Contains(email, <<".">>)
     THEN /\ auth_ret' = [op |-> "initiate_registration", session |-> s, email |-> email,
                          otp |-> otp, ret |-> <<FALSE, "Invalid email format">>]
          /\ UNCHANGED otp_storage
     ELSE IF email \in DOMAIN auth_users[s]
     THEN /\ auth_ret' = [op |-> "initiate_registration", session |-> s, email |-> email,
                          otp |-> otp, ret |-> <<FALSE, "User already exists">>]
          /\ UNCHANGED otp_storage
     ELSE /\ otp_storage' =
               [otp_storage EXCEPT ![s] =
                  (email :> [otp |-> otp, created_at |-> auth_now, verified |-> FALSE]) @@ @]
          /\ auth_ret' =
               [op |-> "initiate_registration", session |-> s, email |-> email, otp |-> otp,
                ret |-> IF sent THEN <<TRUE, "OTP sent successfully to your email">>
                        ELSE <<FALSE, "Failed to send OTP. Please check your email configuration">>]
  /\ UNCHANGED <<users_file, auth_users, auth_now, registered, agents>>

\* verify_otp(email, otp) in session s
verify_otp(s, email, otp) ==
  /\ s \in DOMAIN auth_users
  /\ IF email \notin DOMAIN otp_storage[s]
     THEN /\ auth_ret' = [op |-> "verify_otp", session |-> s, email |-> email,
                          otp |-> otp, ret |-> <<FALSE, "OTP not found or expired">>]
          /\ UNCHANGED otp_storage
     ELSE IF auth_now - otp_storage[s][email].created_at > otp_expiry
     THEN /\ otp_storage' = [otp_storage EXCEPT ![s] = Without(@, email)]
          /\ auth_ret' = [op |-> "verify_otp", session |-> s, email |-> email, otp |-> otp,
                          ret |-> <<FALSE, "OTP has expired. Please request a new one">>]
     ELSE IF otp_storage[s][email].otp = otp
     THEN /\ otp_storage' = [otp_storage EXCEPT ![s][email].verified = TRUE]
          /\ auth_ret' = [op |-> "verify_otp", session |-> s, email |-> email,
                          otp |-> otp, ret |-> <<TRUE, "OTP verified successfully">>]
     ELSE /\ auth_ret' = [op |-> "verify_otp", session |-> s, email |-> email,
                          otp |-> otp, ret |-> <<FALSE, "Invalid OTP">>]
          /\ UNCHANGED otp_storage
  /\ UNCHANGED <<users_file, auth_users, auth_now, registered, agents>>

\* complete_registration(email, password) in session s; saved is what
\* save_users returns: it writes the session's users over the file, or open()
\* fails and the file stays as it is.
complete_registration(s, email, password, saved) ==
  /\ s \in DOMAIN auth_users
  /\ IF email \notin DOMAIN otp_storage[s]
     THEN /\ auth_ret' = [op |-> "complete_registration", session |-> s, email |-> email,
                          password |-> password,
                          ret |-> <<FALSE, "Registration not initiated">>]
          /\ UNCHANGED <<users_file, auth_users, otp_storage, registered>>
     ELSE IF ~otp_storage[s][email].verified
     THEN /\ auth_ret' = [op |-> "complete_registration", session |-> s, email |-> email,
                          password |-> password, ret |-> <<FALSE, "OTP not verified">>]
          /\ UNCHANGED <<users_file, auth_users, otp_storage, registered>>
     ELSE IF Len(password) < 6
     THEN /\ auth_ret' = [op |-> "complete_registration", session |-> s, email |-> email,
                          password |-> password,
                          ret |-> <<FALSE, "Password must be at least 6 characters">>]
          /\ UNCHANGED <<users_file, auth_users, otp_storage, registered>>
     ELSE /\ auth_users' =
               [auth_users EXCEPT ![s] =
                  (email :> [password |-> hash_password(password, "5f"),
                             created_at |-> auth_now, last_login |-> None,
                             email_verified |-> TRUE]) @@ @]
          /\ otp_storage' = [otp_storage EXCEPT ![s] = Without(@, email)]
          /\ users_file' = (IF saved THEN auth_users'[s] ELSE users_file)
          /\ registered' = (IF saved THEN registered \cup {email} ELSE registered)
          /\ auth_ret' =
               [op |-> "complete_registration", session |-> s, email |-> email,
                password |-> password,
                ret |-> IF saved THEN <<TRUE, "Registration completed successfully">>
                        ELSE <<FALSE, "Registration failed - could not save user data">>]
  /\ UNCHANGED <<auth_now, agents>>

\* login_user(email, password) in session s; the result of save_users is not
\* looked at. The token carries the email and the time.
login_user(s, email, password, saved) ==
  /\ s \in DOMAIN auth_users
  /\ IF email \notin DOMAIN auth_users[s]
     THEN /\ auth_ret' = [op |-> "login_user", session |-> s, email |-> email,
                          password |-> password, ret |-> <<FALSE, "User not found", None>>]
          /\ UNCHANGED <<users_file, auth_users>>
     ELSE IF ~verify_password(password, auth_users[s][email].password)
     THEN /\ auth_ret' = [op |-> "login_user", session |-> s, email |-> email,
                          password |-> password, ret |-> <<FALSE, "Invalid password", None>>]
          /\ UNCHANGED <<users_file, auth_users>>
     ELSE /\ auth_users' = [auth_users EXCEPT ![s][email].last_login = auth_now]
          /\ users_file' = (IF saved THEN auth_users'[s] ELSE users_file)
          /\ auth_ret' = [op |-> "login_user", session |-> s, email |-> email,
                          password |-> password,
                          ret |-> <<TRUE, "Login successful", <<email, auth_now>> >>]
  /\ UNCHANGED <<otp_storage, auth_now, registered, agents>>

\* delete_account(email, password) in session s
delete_account(s, email, password, saved) ==
  /\ s \in DOMAIN auth_users
  /\ IF email \notin DOMAIN auth_users[s]
     THEN /\ auth_ret' = [op |-> "delete_account", session |-> s, email |-> email,
                          password |-> password, ret |-> <<FALSE, "User not found">>]
          /\ UNCHANGED <<users_file, auth_users, registered>>
     ELSE IF ~verify_password(password, auth_users[s][email].password)
     THEN /\ auth_ret' = [op |-> "delete_account", session |-> s, email |-> email,
                          password |-> password, ret |-> <<FALSE, "Invalid password">>]
          /\ UNCHANGED <<users_file, auth_users, registered>>
     ELSE /\ auth_users' = [auth_users EXCEPT ![s] = Without(@, email)]
          /\ users_file' = (IF saved THEN auth_users'[s] ELSE users_file)
          /\ registered' = (IF saved THEN registered \ {email} ELSE registered)
          /\ auth_ret' =
               [op |-> "delete_account", session |-> s, email |-> email,
                password |-> password,
                ret |-> IF saved THEN <<TRUE, "Account deleted successfully">>
                        ELSE <<FALSE, "Failed to delete account - could not update data">>]
  /\ UNCHANGED <<otp_storage, auth_now, agents>>

\* ------------------------------------------------------- the specifications

\* One user-triggered call at a time (the system has no concurrency), on an
\* email of the mailbox, the clock advancing in between.
Next ==
  \/ Tick
  \/ \E i \in 1..Len(current_emails), c \in CustomReminders :
       set_reminder(current_emails[i], c)
  \/ get_reminders
  \/ \E id \in ReminderIds : mark_completed(id)
  \/ clear_completed

Spec == Init /\ [][Next]_vars

\* The calls that reach extract_reminder_info or add to the store.
NextExtract ==
  \E i \in 1..Len(current_emails), c \in FormReminders :
    set_reminder(current_emails[i], c)

SpecExtract == InitExtract /\ [][NextExtract]_vars

\* A run of SpecLines: the endpoint answers with a response in the format the
\* prompt asks for.
InitLines ==
  /\ InitAgent
  /\ now = StartTime
  /\ current_emails \in {<<e>> : e \in Emails}
  /\ endpoint_text \in LineReplies

\* The calls that create reminders, the clock advancing in between.
NextLines ==
  \/ Tick
  \/ \E i \in 1..Len(current_emails), c \in FormReminders :
       set_reminder(current_emails[i], c)

SpecLines == InitLines /\ [][NextLines]_vars

\* A run of SpecGenerate: every set_reminder call is stepped through the
\* attempts of its generate_text call, the endpoint doing any of the outcomes
\* at each attempt.
InitGenerate ==
  /\ InitAgent
  /\ now = StartTime
  /\ current_emails \in {<<e>> : e \in Emails}
  /\ endpoint_text = <<>>

NextGenerate ==
  \/ \E i \in 1..Len(current_emails) : BeginSetReminder(i)
  \/ \E o \in Outcomes : generate_text_attempt(o)
  \/ EndSetReminder

SpecGenerate == InitGenerate /\ [][NextGenerate]_vars

\* SpecGenerateLive starts with a mailbox whose email has a subject.
InitGenerateLive ==
  /\ InitGenerate
  /\ current_emails[1].subject # "No Subject"

\* The runs of SpecGenerate in which a call that was started goes on: the
\* call of the endpoint returns or raises, time.sleep returns, and the caller
\* of generate_text goes on when it has returned. The program is one thread
\* that does nothing else in between.
SpecGenerateLive ==
  /\ InitGenerateLive
  /\ [][NextGenerate]_vars
  /\ WF_vars(\E o \in Outcomes : generate_text_attempt(o))
  /\ WF_vars(EndSetReminder)

\* A run of SpecChat: the mailbox holds the email that came with a subject
\* and the endpoint answers with a text that has no ACTION: label.
InitChat ==
  /\ InitAgent
  /\ now = StartTime
  /\ current_emails \in {<<e>> : e \in {m \in Emails : m.subject # "No Subject"}}
  /\ endpoint_text \in
       {r \in SampleReplies : Parsed[r].kind = "no_match"}

\* The calls that change the reminders and the chat calls, in any order, the
\* clock advancing in between.
NextChat ==
  \/ Tick
  \/ \E i \in 1..Len(current_emails), c \in FormReminders :
       set_reminder(current_emails[i], c)
  \/ \E id \in ReminderIds : mark_completed(id)
  \/ clear_completed
  \/ StoredChats < MaxChats /\ \E message \in ChatMessages : general_chat(message)
  \/ /\ StoredChats < MaxChats
     /\ \E email_index \in 0..Len(current_emails), message \in EmailQuestions :
          chat_about_email(email_index, message)

SpecChat == InitChat /\ [][NextChat]_vars

\* A run of SpecMemory: the user chats in the general chat and about the
\* email of the mailbox until both histories have gone over their caps, the
\* clock advancing at some moment.
InitMemory ==
  /\ InitAgent
  /\ now = StartTime
  /\ current_emails \in {<<e>> : e \in {m \in Emails : m.subject # "No Subject"}}
  /\ endpoint_text \in {r \in SampleReplies : Parsed[r].kind = "no_match"}

NextMemory ==
  \/ Tick
  \/ /\ Len(chat_log.general) < MaxGeneralChats
     /\ \E message \in ChatMessages : general_chat(message)
  \/ /\ Len(Get(chat_log.email, 0, <<>>)) < MaxEmailChats
     /\ \E email_index \in 0..Len(current_emails), message \in EmailQuestions :
          chat_about_email(email_index, message)

SpecMemory == InitMemory /\ [][NextMemory]_vars

\* A run of SpecFaults: the endpoint answers every prompt with a reply, or
\* generate_text fails every time with the quota message or with the message
\* of a missing model; the chat about an email is called with the email of the
\* mailbox or with an email that cannot be read.
InitFaults ==
  /\ InitAgent
  /\ now = StartTime
  /\ current_emails \in {<<e>> : e \in {m \in Emails : m.subject # "No Subject"}}
  /\ endpoint_text \in
       {r \in SampleReplies : Parsed[r].kind = "no_match"}
         \cup {QuotaExceeded}
         \cup {ServiceUnavailable(e) : e \in {x \in OtherErrors : Parsed[ServiceUnavailable(x)].kind = "no_match"}}

NextFaults ==
  \/ /\ Len(chat_log.general) < MaxGeneralChats
     /\ \E message \in ChatMessages : general_chat(message)
  \/ /\ Len(Get(chat_log.email, 0, <<>>)) < MaxEmailChats
     /\ \E email_content \in {current_emails[1], BrokenEmail}, message \in EmailQuestions :
          chat_with_email(email_content, message, 0)

SpecFaults == InitFaults /\ [][NextFaults]_vars

\* The keys the callers of get_chat_history and clear_chat_history pass, and
\* the questions asked about an email in the runs of SpecKeys.
ContextKeys == 0..2

KeyQuestions == EmailQuestions \cup { <<"W","h","e","n","?">> }

\* The exchanges held under all keys of chat_histories.
RECURSIVE HeldUnder(_)
HeldUnder(keys) ==
  IF keys = {} THEN 0
  ELSE LET k == CHOOSE x \in keys : TRUE
       IN  Len(chat_histories[k]) + HeldUnder(keys \ {k})

KeyChats == HeldUnder(DOMAIN chat_histories)

\* A run of SpecKeys: a mailbox of two emails; chats about either of them
\* through the system and through the agent, lookups and clears of a key.
InitKeys ==
  /\ InitAgent
  /\ now = StartTime
  /\ current_emails \in {<<a, b>> : a \in {m \in Emails : m.subject # "No Subject"},
                                    b \in {m \in Emails : m.subject = "No Subject"}}
  /\ endpoint_text \in {r \in SampleReplies : Parsed[r].kind = "no_match"}

NextKeys ==
  \/ /\ KeyChats < MaxKeyChats
     /\ \E email_index \in 0..Len(current_emails), message \in KeyQuestions :
          chat_about_email(email_index, message)
  \/ /\ KeyChats < MaxKeyChats
     /\ \E email_index \in 0..(Len(current_emails) - 1), message \in KeyQuestions :
          chat_with_email(current_emails[email_index + 1], message, email_index)
  \/ \E email_index \in ContextKeys : get_chat_history(email_index)
  \/ \E email_index \in ContextKeys : clear_chat_history(email_index)

SpecKeys == InitKeys /\ [][NextKeys]_vars

\* The emails handed to generate_reply: those of the mailbox, one whose body
\* is None and one whose sender has a display name.
ReplyEmails ==
  Emails \cup {BrokenEmail, [subject |-> "Draft", from |-> "Bob Lee <bob@co.com>"]}

\* What generate_text returns in a run of SpecAgents: a reply, a reply in the
\* format of the reminder prompt, or one of its failure messages.
AgentTexts ==
  {r \in SampleReplies : Parsed[r].kind \in {"no_match", "action"}}
    \cup {QuotaExceeded}
    \cup {ServiceUnavailable(e) : e \in {x \in OtherErrors : Parsed[ServiceUnavailable(x)].kind = "no_match"}}

\* A run of SpecAgents: the operations of the agents that the caller of the
\* system reaches, in any order.
InitAgents ==
  /\ InitAgent
  /\ now = StartTime
  /\ current_emails \in {<<e>> : e \in {m \in Emails : m.subject # "No Subject"}}
  /\ endpoint_text \in AgentTexts

NextAgents ==
  \/ \E i \in 1..Len(current_emails) : set_reminder(current_emails[i], None)
  \/ \E id \in ReminderIds : mark_completed(id)
  \/ clear_completed
  \/ /\ StoredChats < MaxChats
     /\ \E message \in ChatMessages : general_chat(message)
  \/ /\ StoredChats < MaxChats
     /\ \E email_content \in {current_emails[1], BrokenEmail}, message \in EmailQuestions :
          chat_with_email(email_content, message, 0)
  \/ \E original_email \in {current_emails[1], BrokenEmail}, tone \in Tones :
       generate_reply(original_email, tone)

SpecAgents == InitAgents /\ [][NextAgents]_vars

\* A run of SpecContent: summaries and replies are asked for while
\* generate_text returns the same text every time, a reply of the endpoint or
\* a failure message.
InitContent ==
  /\ InitAgent
  /\ now = StartTime
  /\ current_emails \in {<<e>> : e \in Emails}
  /\ endpoint_text \in SampleReplies \cup FailureResults

NextContent ==
  \/ \E original_email \in ReplyEmails, tone \in Tones :
       generate_reply(original_email, tone)
  \/ \E e \in Emails, email_body \in SummaryBodies :
       summarize_email(Chars[e.subject], email_body)

SpecContent == InitContent /\ [][NextContent]_vars

\* A custom_reminder that is text and no dict, as a caller of the agent can
\* pass it; the form of the frontend never does.
TextReminder == [py |-> "str", s |-> <<"C","a","l","l"," ","B","o","b">>]

\* A run of SpecIds: reminders are asked for with any custom_reminder, the
\* text included, completed and cleared away.
NextIds ==
  \/ \E i \in 1..Len(current_emails), c \in CustomReminders \cup {TextReminder} :
       set_reminder(current_emails[i], c)
  \/ \E id \in ReminderIds : mark_completed(id)
  \/ clear_completed

SpecIds == Init /\ [][NextIds]_vars

\* Messages of the general chat that go to the endpoint.
ContextMessages == { <<"h","e","l","l","o">>, <<"W","h","y","?">> }

\* The exchanges ever stored by the general chat and under the keys of the two
\* emails.
ContextChats ==
  Len(chat_log.general)
    + Len(Get(chat_log.email, 0, <<>>)) + Len(Get(chat_log.email, 1, <<>>))

\* A run of SpecContext: the general chat and the chats about two emails, each
\* under its own key, with different messages.
NextContext ==
  \/ /\ ContextChats < MaxContextChats
     /\ \E message \in ContextMessages : general_chat(message)
  \/ /\ ContextChats < MaxContextChats
     /\ \E email_index \in 0..(Len(current_emails) - 1), message \in KeyQuestions :
          chat_with_email(current_emails[email_index + 1], message, email_index)

SpecContext == InitKeys /\ [][NextContext]_vars

\* The email_index arguments of the callers of MailManagementSystem: the
\* positions of the mailbox, the one before the first and the one after the
\* last.
EmailIndexes == -1..Len(current_emails)

\* A run of SpecIndex: a mailbox of two emails; reminders, chats and replies
\* are asked for by position, positions outside the mailbox included.
NextIndex ==
  \/ \E email_index \in EmailIndexes, c \in FormReminders :
       set_reminder_for_email(email_index, c)
  \/ /\ KeyChats < MaxChats
     /\ \E email_index \in EmailIndexes, message \in EmailQuestions :
          chat_about_email(email_index, message)
  \/ \E email_index \in EmailIndexes, tone \in {"professional", "angry"} :
       generate_reply_for_email(email_index, tone)

SpecIndex == InitKeys /\ [][NextIndex]_vars

\* A run of SpecAuth: one session registers, logs in and deletes with one
\* address and with a text that is none, while time passes, mail is sent or
\* not and the users file is written or not.
NextAuth ==
  \/ AuthWait
  \/ \E email \in AuthEmails \ {<<"z","@","b",".","c">>}, otp \in Otps, sent \in BOOLEAN :
       initiate_registration(1, email, otp, sent)
  \/ \E email \in AuthEmails \ {<<"z","@","b",".","c">>}, otp \in Otps :
       verify_otp(1, email, otp)
  \/ \E email \in AuthEmails \ {<<"z","@","b",".","c">>}, password \in Passwords,
        saved \in BOOLEAN :
       complete_registration(1, email, password, saved)
  \/ \E email \in AuthEmails \ {<<"z","@","b",".","c">>}, password \in Passwords,
        saved \in BOOLEAN :
       login_user(1, email, password, saved)
  \/ \E email \in AuthEmails \ {<<"z","@","b",".","c">>}, password \in Passwords,
        saved \in BOOLEAN :
       delete_account(1, email, password, saved)

SpecAuth == InitKeys /\ [][NextAuth]_vars

\* A run of SpecSessions: two sessions, the second opened at any moment,
\* register, log in and delete with two addresses; every mail is sent and
\* every write of the users file succeeds.
NextSessions ==
  \/ \E s \in Sessions : init_state(s)
  \/ \E s \in Sessions, email \in {e \in AuthEmails : Contains(e, <<"@">>)} :
       initiate_registration(s, email, "100000", TRUE)
  \/ \E s \in Sessions, email \in {e \in AuthEmails : Contains(e, <<"@">>)} :
       verify_otp(s, email, "100000")
  \/ \E s \in Sessions, email \in {e \in AuthEmails : Contains(e, <<"@">>)} :
       complete_registration(s, email, <<"s","e","c","r","e","t">>, TRUE)
  \/ \E s \in Sessions, email \in {e \in AuthEmails : Contains(e, <<"@">>)} :
       login_user(s, email, <<"s","e","c","r","e","t">>, TRUE)
  \/ \E s \in Sessions, email \in {e \in AuthEmails : Contains(e, <<"@">>)} :
       delete_account(s, email, <<"s","e","c","r","e","t">>, TRUE)

SpecSessions == InitKeys /\ [][NextSessions]_vars

\* ------------------------------------------------------------- the claims

\* The ids of the reminders of a list.
IdsOf(rs) == {rs[i].id : i \in 1..Len(rs)}

\* The reminder of the list rs that has the id (ids are unique in a list).
WithId(rs, id) == rs[CHOOSE i \in 1..Len(rs) : rs[i].id = id]

\* The step is a call of set_reminder, with any arguments; the call is
\* recorded in `last`, which is looked at first.
SetReminderStep ==
  /\ last'.call.op = "set_reminder"
  /\ \E e \in Emails, c \in CustomReminders : set_reminder(e, c)

\* The step is the call mark_completed(id); the call is recorded in `last`,
\* which is looked at first.
MarkStep(id) ==
  /\ last'.call.op = "mark_completed"
  /\ last'.call.reminder_id = id
  /\ mark_completed(id)

\* The step is a chat call, with any arguments; a chat call is no call on the
\* reminder agent and leaves `last` as it is, which is looked at first, and
\* is recorded in `agent_ret`.
ChatStep ==
  /\ last'.call.op = last.call.op
  /\ last' = last
  /\ \/ /\ agent_ret'.op = "general_chat"
        /\ \E message \in ChatMessages : general_chat(message)
     \/ /\ agent_ret'.op \in {"chat_with_email", "chat_about_email"}
        /\ \E email_index \in 0..Len(current_emails), message \in EmailQuestions :
             chat_about_email(email_index, message)

\* C1: the ids given to reminders are strictly increasing in creation order,
\* so no id is given twice, the ids of reminders that clear_completed has
\* removed included.
C1_IdsStrictlyIncreasing ==
  \A i \in 1..Len(created) : \A j \in 1..Len(created) :
    i < j => created[i] < created[j]

\* C1 happens: a reminder has just been created after an earlier one was
\* completed and cleared away.
C1_Witness ==
  /\ last.call.op = "set_reminder"
  /\ last.ret # None
  /\ Len(created) >= 2
  /\ created[1] \notin IdsOf(reminders)

\* C2: a stored reminder has a completed_at value exactly when its completed
\* flag is true.
C2_CompletedAtIffCompleted ==
  \A i \in 1..Len(reminders) :
    /\ ("completed_at" \in DOMAIN reminders[i]) <=> (reminders[i].completed = TRUE)
    /\ "completed_at" \in DOMAIN reminders[i] => reminders[i].completed_at # <<>>

\* C2 happens: the store holds a completed and a pending reminder.
C2_Witness ==
  /\ \E i \in 1..Len(reminders) : reminders[i].completed
  /\ \E i \in 1..Len(reminders) : ~reminders[i].completed

\* C3: no reminder with an empty action is ever in the store.
C3_NoEmptyAction ==
  \A i \in 1..Len(reminders) : reminders[i].action # <<>>

\* C4: a completed reminder stays in the store and completed, unless the step
\* is clear_completed, which removes it; it never becomes pending again.
C4_CompletedIsFinal ==
  [][\A i \in 1..Len(reminders) :
       reminders[i].completed =>
         \/ /\ reminders[i].id \in IdsOf(reminders')
            /\ WithId(reminders', reminders[i].id).completed
         \/ /\ clear_completed
            /\ reminders[i].id \notin IdsOf(reminders')]_vars

\* C4 happens: the only reminder of the store was completed and has left it
\* through clear_completed.
C4_Witness ==
  /\ last.call.op = "clear_completed"
  /\ last.ret = 1
  /\ reminders = <<>>
  /\ Len(created) >= 1

\* C5: clear_completed removes exactly the completed reminders and returns
\* their number; the pending ones stay as they are, in the same order.
C5_ClearRemovesExactlyCompleted ==
  [][(last'.call.op = "clear_completed" /\ clear_completed) =>
       /\ \A i \in 1..Len(reminders) :
            IF reminders[i].completed
            THEN reminders[i].id \notin IdsOf(reminders')
            ELSE \E j \in 1..Len(reminders') : reminders'[j] = reminders[i]
       /\ \A j \in 1..Len(reminders') :
            \E i \in 1..Len(reminders) : reminders[i] = reminders'[j]
       /\ \A j \in 1..Len(reminders') : \A k \in 1..Len(reminders') :
            j < k => reminders'[j].id < reminders'[k].id
       /\ last'.ret = Cardinality({i \in 1..Len(reminders) : reminders[i].completed})
       /\ Len(reminders') = Len(reminders) - last'.ret
       /\ reminder_id_counter' = reminder_id_counter]_vars

\* C5 happens: a call has removed a completed reminder and kept a pending one.
C5_Witness ==
  /\ last.call.op = "clear_completed"
  /\ last.ret >= 1
  /\ Len(reminders) >= 1

\* C6: mark_completed with an id that no stored reminder has returns false
\* and changes neither the list, nor a reminder, nor the counter.
C6_UnknownIdChangesNothing ==
  [][\A id \in ReminderIds :
       (id \notin IdsOf(reminders) /\ MarkStep(id)) =>
         /\ last'.ret = FALSE
         /\ reminders' = reminders
         /\ reminder_id_counter' = reminder_id_counter]_vars

\* C6 happens: the call missed on a store that holds reminders, with an id
\* that is a position of the list.
C6_Witness ==
  /\ last.call.op = "mark_completed"
  /\ last.ret = FALSE
  /\ last.call.reminder_id \in 1..Len(reminders)
  /\ last.call.reminder_id \notin IdsOf(reminders)

\* C7: mark_completed on the id of a stored pending reminder returns true and
\* leaves it completed with a completed_at value; on a reminder that is
\* completed already the call is made just the same and leaves it completed.
C7_MarkCompletes ==
  [][\A id \in ReminderIds :
       (id \in IdsOf(reminders) /\ MarkStep(id)) =>
         /\ id \in IdsOf(reminders')
         /\ WithId(reminders', id).completed = TRUE
         /\ "completed_at" \in DOMAIN WithId(reminders', id)
         /\ WithId(reminders', id).completed_at # <<>>
         /\ ~WithId(reminders, id).completed => last'.ret = TRUE]_vars

\* C7 happens: a reminder completed by an earlier call has been marked again.
C7_Witness ==
  /\ last.call.op = "mark_completed"
  /\ last.call.was_completed
  /\ last.call.reminder_id \in IdsOf(reminders)
  /\ WithId(reminders, last.call.reminder_id).completed

\* C8: get_reminders returns every reminder of the store, completed or not,
\* oldest first: in the order of creation, the ids ascending.
C8_GetReturnsAllInCreationOrder ==
  [][(last'.call.op = "get_reminders" /\ get_reminders) =>
       /\ Len(last'.ret) = Len(reminders)
       /\ \A i \in 1..Len(reminders) : last'.ret[i] = reminders[i]
       /\ \A i \in 1..Len(last'.ret) : \A j \in 1..Len(last'.ret) :
            i < j =>
              /\ last'.ret[i].id < last'.ret[j].id
              /\ \E a \in 1..Len(created) : \E b \in 1..Len(created) :
                   a < b /\ created[a] = last'.ret[i].id
                         /\ created[b] = last'.ret[j].id]_vars

\* C8 happens: the call returned a completed reminder followed by a pending
\* one.
C8_Witness ==
  /\ last.call.op = "get_reminders"
  /\ Len(last.ret) >= 2
  /\ last.ret[1].completed
  /\ ~last.ret[2].completed

\* The fields of a reminder that no call assigns after its creation.
CreationFields == {"id", "email_subject", "action", "date", "created_at"}

\* C9: a reminder keeps its id, email_subject, action, date and created_at as
\* long as it is stored; only mark_completed changes a stored reminder, and
\* only its completed and completed_at; a call of set_reminder, successful or
\* not, leaves every stored reminder as it is, and so does a chat call, which
\* leaves the counter as it is too.
C9_CreationFieldsNeverChange ==
  [][/\ \A i \in 1..Len(reminders) : \A j \in 1..Len(reminders') :
          reminders'[j].id = reminders[i].id =>
            /\ \A f \in CreationFields : reminders'[j][f] = reminders[i][f]
            /\ reminders'[j] # reminders[i] =>
                 /\ MarkStep(reminders[i].id)
                 /\ DOMAIN reminders'[j] \ DOMAIN reminders[i] \subseteq {"completed_at"}
     /\ \/ /\ Len(reminders') >= Len(reminders)
           /\ \A i \in 1..Len(reminders) : reminders'[i] = reminders[i]
        \/ ~SetReminderStep
     /\ \/ /\ reminders' = reminders
           /\ reminder_id_counter' = reminder_id_counter
        \/ ~ChatStep]_vars

\* C9 happens: a reminder was created and completed, both chats have stored
\* an exchange since or before, and the last call created a further reminder
\* at a later second.
C9_Witness ==
  /\ last.call.op = "set_reminder"
  /\ last.ret # None
  /\ Len(reminders) >= 2
  /\ reminders[1].completed
  /\ reminders[1].created_at # last.ret.created_at
  /\ StoredChats >= 1

\* The NO_ACTION token is in the text in some letter case.
HasNoActionToken(text) ==
  \E i \in 1..Len(text) : MatchAtCI(text, i, kwNO_ACTION)

\* C10: when the response has the NO_ACTION token in any letter case,
\* extract_reminder_info returns None whatever else the response holds, and
\* set_reminder returns None and leaves the store and the counter unchanged.
C10_NoActionWins ==
  [][HasNoActionToken(endpoint_text) =>
       /\ \A e \in Emails : extract_reminder_info(e, endpoint_text, now) = None
       /\ \A i \in 1..Len(current_emails), c \in CustomReminders :
            (/\ ~Truthy(c)
             /\ last'.call.op = "set_reminder"
             /\ set_reminder(current_emails[i], c)) =>
              /\ last'.ret = None
              /\ reminders' = reminders
              /\ reminder_id_counter' = reminder_id_counter]_vars

\* C10 happens: set_reminder was called on a store that holds a reminder, and
\* the response had a well-formed ACTION: line followed by the token in mixed
\* case.
C10_Witness ==
  /\ last.call.op = "set_reminder"
  /\ last.call.generated
  /\ last.call.response = <<"A","C","T","I","O","N",":"," ","P","a","y","\n","n","o","_","A","c","t","i","o","n">>
  /\ last.ret = None
  /\ Len(reminders) >= 1

\* The last call was set_reminder without a custom reminder: the reminder, if
\* any, comes from extract_reminder_info on the recorded response.
Extracted ==
  /\ last.call.op = "set_reminder"
  /\ last.call.generated

\* The label, with its colon, is in the text in some letter case.
HasLabel(text, label) ==
  \E i \in 1..Len(text) : MatchAtCI(text, i, label \o <<":">>)

\* C12: for a response 'ACTION: a' / 'DATE: d' on two lines, d being no
\* keyword, the extracted reminder has exactly the action a and the date d.
C12_TwoLinesGiveActionAndDate ==
  \A a \in ActionTexts, d \in PlainDates :
    (Extracted /\ last.call.response = TwoLines(a, d)) =>
      /\ last.ret # None
      /\ last.ret.action = a
      /\ last.ret.date = d

\* The calendar day after each day the runs are in, as strftime writes them.
DayAfter ==
  (<<"2","0","2","5","-","0","9","-","3","0">> :> <<"2","0","2","5","-","1","0","-","0","1">>)
    @@ (<<"2","0","2","5","-","1","0","-","0","1">> :> <<"2","0","2","5","-","1","0","-","0","2">>)

\* The day part of a '%Y-%m-%d %H:%M:%S' timestamp.
DayOf(stamp) == SubSeq(stamp, 1, 10)

\* C13: a reminder made by extraction never has the date ASAP or SOON, in any
\* letter case, nor an empty date; when the date text of the response
\* resolves to ASAP, SOON or the empty text, the date is the calendar day
\* after the day of the call, as YYYY-MM-DD.
C13_KeywordDateIsTomorrow ==
  (Extracted /\ last.ret # None) =>
    /\ last.ret.date # <<>>
    /\ \A kw \in {kwASAP, kwSOON} :
         ~(Len(last.ret.date) = Len(kw) /\ MatchAtCI(last.ret.date, 1, kw))
    /\ \A a \in ActionTexts, d \in KeywordDates :
         last.call.response = TwoLines(a, d) =>
           last.ret.date = DayAfter[DayOf(last.ret.created_at)]

\* C13 happens: the response had the date soon, and the call was made after
\* midnight of the last day of the month.
C13_Witness ==
  /\ Extracted
  /\ last.ret # None
  /\ \E a \in ActionTexts : last.call.response = TwoLines(a, <<"s","o","o","n">>)
  /\ DayOf(last.ret.created_at) = <<"2","0","2","5","-","1","0","-","0","1">>
  /\ last.ret.date = <<"2","0","2","5","-","1","0","-","0","2">>

\* C14: when the response has no DATE: label, the date of the extracted
\* reminder is the literal TOMORROW.
C14_NoDateLabelGivesTomorrow ==
  (Extracted /\ last.ret # None /\ ~HasLabel(last.call.response, kwDATE)) =>
    last.ret.date = <<"T","O","M","O","R","R","O","W">>

\* C14 happens: the response was an ACTION: line only.
C14_Witness ==
  /\ Extracted
  /\ last.call.response = <<"A","C","T","I","O","N",":"," ","P","a","y">>
  /\ last.ret # None
  /\ last.ret.action = <<"P","a","y">>
  /\ last.ret.date = <<"T","O","M","O","R","R","O","W">>

\* C15: when the response has neither the NO_ACTION token nor an ACTION:
\* label, extract_reminder_info returns None, and set_reminder returns None
\* and leaves the store and the counter as they are.
C15_NoLabelIsNoAction ==
  [][(~HasNoActionToken(endpoint_text) /\ ~HasLabel(endpoint_text, kwACTION)) =>
       /\ \A e \in Emails : extract_reminder_info(e, endpoint_text, now) = None
       /\ \A i \in 1..Len(current_emails), c \in CustomReminders :
            (/\ ~Truthy(c)
             /\ last'.call.op = "set_reminder"
             /\ set_reminder(current_emails[i], c)) =>
              /\ last'.ret = None
              /\ reminders' = reminders
              /\ reminder_id_counter' = reminder_id_counter]_vars

\* C15 happens: the response had a DATE: line and no ACTION: label, and the
\* store held a reminder.
C15_Witness ==
  /\ Extracted
  /\ last.call.response = <<"D","A","T","E",":"," ","P","a","y">>
  /\ last.ret = None
  /\ Len(reminders) >= 1

\* C16: for the response 'ACTION: Attend meeting DATE: This Friday' set_reminder
\* adds one reminder, whose action contains 'Attend meeting' and whose date is
\* 'This Friday' as written.
C16_OneLineExample ==
  [][\A i \in 1..Len(current_emails) :
       (endpoint_text = OneLine /\ last'.call.op = "set_reminder"
          /\ set_reminder(current_emails[i], None)) =>
         /\ Len(reminders') = Len(reminders) + 1
         /\ \A k \in 1..Len(reminders) : reminders'[k] = reminders[k]
         /\ Contains(reminders'[Len(reminders')].action, <<"A","t","t","e","n","d"," ","m","e","e","t","i","n","g">>)
         /\ reminders'[Len(reminders')].date = <<"T","h","i","s"," ","F","r","i","d","a","y">>
         /\ last'.ret = reminders'[Len(reminders')]]_vars

\* C16 happens: the reminder of the example is in the store.
C16_Witness ==
  /\ Extracted
  /\ last.call.response = OneLine
  /\ last.ret # None
  /\ reminders # <<>>
  /\ reminders[Len(reminders)] = last.ret

\* The generate_text call that has returned ended in the except clause: the
\* endpoint raised at its last attempt.
Failed == outcomes # <<>> /\ ~outcomes[Len(outcomes)].ok

\* C11: when generate_text returns a failure result, whether the quota
\* message or the service-unavailable message with whatever error text, the
\* set_reminder call that asked for the text returns None and leaves the list
\* of reminders and the counter as they were.
C11_FailureGivesNoReminder ==
  [][(gen_pc = "returned" /\ Failed /\ EndSetReminder) =>
       /\ last'.ret = None
       /\ reminders' = reminders
       /\ reminder_id_counter' = reminder_id_counter]_vars

\* Every attempt of the call so far ended in a quota error.
AllQuota ==
  /\ outcomes # <<>>
  /\ \A k \in 1..Len(outcomes) : ~outcomes[k].ok /\ outcomes[k].text \in QuotaErrors

\* C17: while the endpoint raises a quota error at every attempt, a
\* generate_text call waits 30 seconds after the first failure and 60 seconds
\* after the second, and after the third failure it returns the quota message
\* without having waited again and without raising: three attempts in all.
C17_ThreeAttemptsOnQuota ==
  AllQuota =>
    /\ Len(outcomes) <= 3
    /\ Len(outcomes) = 1 => gen_pc = "try" /\ slept = <<30>>
    /\ Len(outcomes) = 2 => gen_pc = "try" /\ slept = <<30, 60>>
    /\ Len(outcomes) = 3 =>
         /\ gen_pc \in {"returned", "idle"}
         /\ gen_ret = QuotaExceeded
         /\ slept = <<30, 60>>

C17_Witness ==
  /\ AllQuota
  /\ Len(outcomes) = 3
  /\ {outcomes[k].text : k \in 1..3} = QuotaErrors
  /\ gen_pc = "returned"
  /\ gen_ret = QuotaExceeded
  /\ slept = <<30, 60>>

\* C18: under repeated quota errors the waits of one generate_text call are
\* 30, 60 and 120 seconds, the call that ends on the quota message having
\* blocked 120 seconds in its last wait.
C18_WaitsUpTo120 ==
  (AllQuota /\ gen_pc = "returned") => slept = <<30, 60, 120>>

\* C19: an attempt that fails with an error that is no quota error ends the
\* call at once, after no quota errors or after some: no sleep is made, the
\* clock does not move, the call has returned, so that no further attempt
\* follows, and the value returned is the service-unavailable message
\* followed by the error text.
C19_OtherErrorReturnsAtOnce ==
  [][\A o \in Outcomes :
       (~o.ok /\ o.text \in OtherErrors /\ gen_pc = "try" /\ generate_text_attempt(o)) =>
         /\ gen_pc' = "returned"
         /\ gen_ret' = ServiceUnavailable(o.text)
         /\ slept' = slept
         /\ now' = now]_vars

C19_Witness ==
  /\ Len(outcomes) = 3
  /\ outcomes[1].text \in QuotaErrors
  /\ outcomes[2].text \in QuotaErrors
  /\ ~outcomes[3].ok
  /\ outcomes[3].text \in OtherErrors
  /\ gen_pc = "returned"
  /\ gen_ret = ServiceUnavailable(outcomes[3].text)
  /\ slept = <<30, 60>>

\* C20: whatever the endpoint does at each attempt, generate_text never
\* raises: a call in progress has attempts left, and a call that has ended
\* made at most max_retries attempts and returned a text.
C20_NeverRaises ==
  /\ gen_pc \in {"idle", "try", "returned"}
  /\ Len(outcomes) <= max_retries
  /\ gen_pc = "try" => attempt = Len(outcomes) /\ attempt < max_retries /\ gen_ret = None
  /\ gen_pc = "returned" => gen_ret \in GeneratedTexts

C20_Witness ==
  /\ gen_pc = "returned"
  /\ Len(outcomes) = 3
  /\ ~outcomes[1].ok
  /\ ~outcomes[2].ok
  /\ outcomes[3].ok
  /\ gen_ret = Strip(outcomes[3].text)

\* C30: a set_reminder call that returns a reminder, extracted or custom, has
\* appended exactly that reminder at the end of the list, pending and without
\* completed_at, with the value the counter had before the call as its id,
\* and has advanced the counter by one; a custom action/date pair is stored
\* as given and the text generation is not called for it.
C30_SetReminderAppendsOne ==
  [][(SetReminderStep /\ last'.ret # None) =>
       /\ Len(reminders') = Len(reminders) + 1
       /\ \A k \in 1..Len(reminders) : reminders'[k] = reminders[k]
       /\ reminders'[Len(reminders')] = last'.ret
       /\ last'.ret.completed = FALSE
       /\ "completed_at" \notin DOMAIN last'.ret
       /\ last'.ret.id = reminder_id_counter
       /\ reminder_id_counter' = reminder_id_counter + 1
       /\ \A c \in CustomReminders :
            (Truthy(c) /\ last'.call.custom = c /\ {"action", "date"} \subseteq DOMAIN c.d) =>
              /\ last'.ret.action = c.d.action
              /\ last'.ret.date = c.d.date
              /\ ~last'.call.generated]_vars

\* C30 happens: a custom pair has been stored behind an extracted reminder.
C30_Witness ==
  /\ last.call.op = "set_reminder"
  /\ Truthy(last.call.custom)
  /\ last.ret # None
  /\ last.ret.id = 2
  /\ last.ret.action = <<"C","a","l","l"," ","B","o","b">>
  /\ last.ret.date = <<"F","r","i","d","a","y">>
  /\ Len(reminders) = 2
  /\ reminders[2] = last.ret
  /\ reminders[1].action = <<"P","a","y"," ","r","e","n","t">>

\* C21: the value generate_text returns tells a caller how the call ended: a
\* call that ended with a response of the endpoint never returns a value that
\* a call ending in the quota or the service-unavailable branch returns.
C21_FailureResultsAreDistinct ==
  (gen_pc = "returned" /\ ~Failed) => gen_ret \notin FailureResults

\* The history holds the last min(n, cap) entries of the n entries of the
\* log, in the order they were appended.
IsRecentWindow(history, log, cap) ==
  /\ Len(history) = (IF Len(log) < cap THEN Len(log) ELSE cap)
  /\ \A k \in 1..Len(history) : history[k] = log[Len(log) - Len(history) + k]

\* C22: after n exchanges have been appended to a conversation, the stored
\* history is the min(n, N) most recent of them in the order of insertion, N
\* being 10 for the general chat and 5 for the chat about an email; after 12
\* exchanges of the general chat the first two are gone.
C22_HistoryIsRecentWindow ==
  /\ IsRecentWindow(chat_history, chat_log.general, 10)
  /\ \A key \in DOMAIN chat_histories :
       IsRecentWindow(chat_histories[key], chat_log.email[key], 5)
  /\ Len(chat_log.general) = 12 =>
       /\ Len(chat_history) = 10
       /\ chat_history[1] = chat_log.general[3]
       /\ chat_history[10] = chat_log.general[12]

\* C22 happens: 12 exchanges went to the general chat and 6 to the chat about
\* the email, the clock having advanced before the last of each.
C22_Witness ==
  /\ Len(chat_log.general) = 12
  /\ Len(chat_history) = 10
  /\ chat_history[9].timestamp # chat_history[10].timestamp
  /\ 0 \in DOMAIN chat_histories
  /\ Len(chat_log.email[0]) = 6
  /\ Len(chat_histories[0]) = 5
  /\ chat_histories[0][4].timestamp # chat_histories[0][5].timestamp

\* C23: whatever chat calls were made, those that ended in the except clause
\* of the agent included, the general chat holds at most 10 exchanges and the
\* chat of every email at most 5.
C23_HistoriesWithinCaps ==
  /\ Len(chat_history) <= 10
  /\ \A key \in DOMAIN chat_histories : Len(chat_histories[key]) <= 5

\* The new history ends with one entry holding the message and the answer;
\* before it come the latest entries of the old history, all of them when the
\* old history was below the cap.
AppendedOne(new, old, cap, message, answer) ==
  /\ new # <<>>
  /\ new[Len(new)].user = message
  /\ new[Len(new)].assistant = answer
  /\ Len(new) - 1 <= Len(old)
  /\ Len(old) < cap => Len(new) = Len(old) + 1
  /\ SubSeq(new, 1, Len(new) - 1) = SubSeq(old, Len(old) - Len(new) + 2, Len(old))

\* C24: a chat call whose text generation fails with the quota message or
\* the service-unavailable message stores one exchange all the same, behind
\* the ones stored before: the user's message with the failure message as the
\* assistant's content, which is also what the call returns.
C24_FailedGenerationIsStored ==
  [][(endpoint_text \in FailureResults) =>
       ((\A m \in ChatMessages :
           (/\ agent_ret'.op = "general_chat"
            /\ agent_ret'.stored
            /\ general_chat(m)) =>
             (/\ AppendedOne(chat_history', chat_history, 10, m, endpoint_text)
              /\ agent_ret'.ret[1] = endpoint_text))
        /\ (\A m \in EmailQuestions :
              (/\ agent_ret'.op = "chat_with_email"
               /\ chat_with_email(current_emails[1], m, 0)) =>
                (/\ 0 \in DOMAIN chat_histories'
                 /\ AppendedOne(chat_histories'[0], Get(chat_histories, 0, <<>>), 5, m,
                                endpoint_text)
                 /\ agent_ret'.ret[1] = endpoint_text)))]_vars

\* C24 happens: both chats have just stored the message of the missing model
\* as the assistant's answer, the chat about the email being at its cap.
C24_Witness ==
  /\ endpoint_text \in FailureResults \ {QuotaExceeded}
  /\ agent_ret.op = "chat_with_email"
  /\ ~agent_ret.failed
  /\ agent_ret.ret[1] = endpoint_text
  /\ Len(chat_log.email[0]) = 6
  /\ Len(chat_histories[0]) = 5
  /\ chat_histories[0][5].assistant = endpoint_text
  /\ chat_history # <<>>
  /\ chat_history[Len(chat_history)].assistant = endpoint_text

\* C25: a chat about the email at index i through
\* MailManagementSystem.chat_about_email(i, msg) is stored under key i, behind
\* the earlier exchanges of key i, is answered with the latest exchanges of
\* key i as its context, and leaves every other key as it was.
C25_ChatIsStoredUnderItsIndex ==
  [][\A i \in 1..Len(current_emails), m \in KeyQuestions :
       (/\ agent_ret'.op = "chat_with_email"
        /\ chat_about_email(i - 1, m)) =>
         (/\ (i - 1) \in DOMAIN chat_histories'
          /\ AppendedOne(chat_histories'[i - 1], Get(chat_histories, i - 1, <<>>), 5,
                         m, Strip(endpoint_text))
          /\ agent_ret'.context = ConversationContext(Get(chat_histories, i - 1, <<>>))
          /\ \A k \in ContextKeys \ {i - 1} :
               /\ (k \in DOMAIN chat_histories') = (k \in DOMAIN chat_histories)
               /\ Get(chat_histories', k, <<>>) = Get(chat_histories, k, <<>>))]_vars

\* C26: clear_chat_history(key) leaves no entry under key and returns true
\* exactly when key held at least one entry before the call, so false for a
\* key never seen and for a key whose history is empty.
C26_ClearReportsWhetherEntriesExisted ==
  [][\A k \in ContextKeys :
       (/\ agent_ret'.op = "clear_chat_history"
        /\ clear_chat_history(k)) =>
         (/\ Get(chat_histories', k, <<>>) = <<>>
          /\ agent_ret'.ret = (Get(chat_histories, k, <<>>) # <<>>))]_vars

\* C27: get_chat_history(key) returns what is stored under key, which is the
\* latest exchanges appended under key in the order they were appended, and
\* the empty sequence for a key never chatted on; no part of the state
\* changes, and a key that was not registered is not registered afterwards.
C27_LookupReturnsHistoryAndChangesNothing ==
  [][\A k \in ContextKeys :
       (/\ agent_ret'.op = "get_chat_history"
        /\ agent_ret'.email_index = k
        /\ get_chat_history(k)) =>
         (/\ agent_ret'.ret = (IF k \in DOMAIN chat_histories THEN chat_histories[k]
                               ELSE <<>>)
          /\ IsRecentWindow(agent_ret'.ret, Get(chat_log.email, k, <<>>), 5)
          /\ (k \in DOMAIN chat_histories') = (k \in DOMAIN chat_histories)
          /\ UNCHANGED <<chat_history, chat_histories, chat_log, reminders,
                         reminder_id_counter, current_emails, auth, now>>)]_vars

\* C27 happens: the lookup of a key never chatted on has returned the empty
\* sequence and the key is still not registered, while another key holds two
\* exchanges with different questions.
C27_Witness ==
  /\ agent_ret.op = "get_chat_history"
  /\ agent_ret.email_index = 1
  /\ agent_ret.ret = <<>>
  /\ 1 \notin DOMAIN chat_histories
  /\ 0 \in DOMAIN chat_histories
  /\ Len(chat_histories[0]) = 2
  /\ chat_histories[0][1].user # chat_histories[0][2].user

\* C29: when generate_text has failed with the quota message or with a
\* service-unavailable message, summarize_email returns the summary built
\* from the subject and the body and generate_reply returns the reply of its
\* except clause; the failure message is no part of what either returns.
C29_FailureGivesFallbackContent ==
  endpoint_text \in FailureResults =>
    /\ agent_ret.op = "summarize_email" =>
         /\ agent_ret.ret = create_fallback_summary(agent_ret.subject, agent_ret.body)
         /\ ~Contains(agent_ret.ret, endpoint_text)
    /\ agent_ret.op = "generate_reply" =>
         /\ agent_ret.ret = CannedReply(Chars[agent_ret.email.subject])
         /\ ~Contains(agent_ret.ret, endpoint_text)

\* A str: a sequence of characters.
IsText(v) == v \in Seq(STRING)

\* The history a chat returns: a sequence of role/content entries.
IsHistory(v) ==
  \A k \in 1..Len(v) :
    /\ DOMAIN v[k] = {"role", "content"}
    /\ v[k].role \in {"user", "assistant"}
    /\ IsText(v[k].content)

\* C28: whatever generate_text has given, a reply or a failure message, the
\* operation of an agent that ran last did not raise and has returned the
\* value it is defined to return: set_reminder a reminder or None,
\* mark_completed a bool, clear_completed a count, generate_reply a str,
\* general_chat and chat_with_email a pair of a message and a history.
C28_AgentsReturnUsableValues ==
  /\ last.call.op = "set_reminder" =>
       \/ DOMAIN last.ret = {"py"} /\ last.ret = None
       \/ /\ DOMAIN last.ret =
               {"id", "email_subject", "action", "date", "created_at", "completed"}
          /\ last.ret.id \in Nat
  /\ last.call.op = "mark_completed" => last.ret \in BOOLEAN
  /\ last.call.op = "clear_completed" => last.ret \in Nat
  /\ agent_ret.op = "generate_reply" =>
       /\ ~agent_ret.raised
       /\ IsText(agent_ret.ret)
       /\ agent_ret.ret # <<>>
  /\ agent_ret.op \in {"general_chat", "chat_with_email"} =>
       /\ ~agent_ret.raised
       /\ Len(agent_ret.ret) = 2
       /\ IsText(agent_ret.ret[1])
       /\ IsHistory(agent_ret.ret[2])
       /\ agent_ret.ret[2] # <<>>

\* C28 happens: generation fails with the quota message; set_reminder has
\* returned and the general chat has stored and returned the failure message.
C28_Witness ==
  /\ endpoint_text = QuotaExceeded
  /\ last.call.op = "set_reminder"
  /\ agent_ret.op = "general_chat"
  /\ agent_ret.stored
  /\ agent_ret.ret[1] = QuotaExceeded
  /\ Len(agent_ret.ret[2]) = 2

\* C31: a set_reminder call that returns None, because the extraction gave
\* no reminder or because an error was caught, leaves the list of reminders
\* and the counter as they were; so the ids handed out are consecutive, the
\* k-th reminder ever created having id k.
C31_NoneLeavesStoreAndIdsConsecutive ==
  [][/\ (/\ last'.call.op = "set_reminder"
         /\ \E i \in 1..Len(current_emails), c \in CustomReminders \cup {TextReminder} :
              set_reminder(current_emails[i], c)
         /\ last'.ret = None) =>
           (/\ reminders' = reminders
            /\ reminder_id_counter' = reminder_id_counter
            /\ created' = created)
     /\ \A k \in 1..Len(created') : created'[k] = k
     /\ reminder_id_counter' = Len(created') + 1]_vars

\* C31 happens: a call has just ended in the except clause and returned
\* None after two reminders were created, the first of which is cleared away.
C31_Witness ==
  /\ last.call.op = "set_reminder"
  /\ last.call.custom = TextReminder
  /\ last.ret = None
  /\ Len(created) = 2
  /\ created[1] \notin IdsOf(reminders)
  /\ reminder_id_counter = 3

\* C32: an error of the endpoint counts as a quota error exactly when its
\* text holds 429 or, in any case of letters, the word quota. An attempt that
\* fails with such an error is followed by a wait and a further attempt, or
\* by the quota message when it was the last attempt; an attempt that fails
\* with any other error ends the call with the service-unavailable message
\* and no wait.
C32_QuotaIffMarked ==
  [][\A o \in Outcomes :
       (~o.ok /\ gen_pc = "try" /\ generate_text_attempt(o)) =>
         IF \/ Contains(o.text, <<"4","2","9">>)
            \/ Contains(Lower(o.text), <<"q","u","o","t","a">>)
         THEN /\ o.text \in QuotaErrors
              /\ \/ /\ attempt < max_retries - 1
                    /\ gen_pc' = "try"
                    /\ attempt' = attempt + 1
                    /\ Len(slept') = Len(slept) + 1
                 \/ /\ attempt = max_retries - 1
                    /\ gen_pc' = "returned"
                    /\ gen_ret' = QuotaExceeded
                    /\ slept' = slept
         ELSE /\ o.text \in OtherErrors
              /\ gen_pc' = "returned"
              /\ gen_ret' = ServiceUnavailable(o.text)
              /\ slept' = slept]_vars

\* C32 happens: an error whose text has the word with a capital letter was
\* retried after a wait, and the error without a mark that came next ended
\* the call.
C32_Witness ==
  /\ Len(outcomes) = 2
  /\ outcomes[1].text = <<"Q","u","o","t","a"," ","h","i","t">>
  /\ ~outcomes[1].ok
  /\ ~outcomes[2].ok
  /\ outcomes[2].text = <<"4","0","4"," ","n","o"," ","m","o","d","e","l">>
  /\ gen_pc = "returned"
  /\ gen_ret = ServiceUnavailable(outcomes[2].text)
  /\ slept = <<30>>

\* C33: a call that succeeds at attempt k, after k-1 attempts that failed
\* with a quota error, has made k attempts and k-1 waits and returns the text
\* of attempt k without the whitespace around it; unless the endpoint wrote
\* the words of a failure message itself, what is returned is no failure
\* message.
C33_SuccessAfterQuotaReturnsText ==
  \A k \in 1..max_retries :
    (/\ gen_pc = "returned"
     /\ Len(outcomes) = k
     /\ outcomes[k].ok
     /\ \A j \in 1..(k - 1) : ~outcomes[j].ok /\ outcomes[j].text \in QuotaErrors) =>
      /\ gen_ret = Strip(outcomes[k].text)
      /\ attempt = k - 1
      /\ Len(slept) = k - 1
      /\ \A j \in 1..(k - 1) : slept[j] = (2 ^ (j - 1)) * 30
      /\ Strip(outcomes[k].text) \notin FailureResults =>
           gen_ret \notin FailureResults \cup {MaxRetriesExceeded}

\* C33 happens: the third attempt succeeded after two different quota errors
\* and waits of 30 and 60 seconds.
C33_Witness ==
  /\ gen_pc = "returned"
  /\ Len(outcomes) = 3
  /\ outcomes[1].text \in QuotaErrors /\ ~outcomes[1].ok
  /\ outcomes[2].text \in QuotaErrors /\ ~outcomes[2].ok
  /\ outcomes[1].text # outcomes[2].text
  /\ outcomes[3].ok
  /\ outcomes[3].text \notin FailureResults
  /\ gen_ret = outcomes[3].text
  /\ slept = <<30, 60>>
  /\ attempt = 2

\* C34: whatever the endpoint does at each attempt, a generate_text call
\* makes at most 3 attempts and at most 2 waits and comes to its end, and the
\* set_reminder call that asked for the text runs to completion.
C34_GenerateTerminates ==
  /\ [](Len(outcomes) <= 3 /\ Len(slept) <= 2)
  /\ (gen_pc = "try") ~> (gen_pc = "idle")

\* C34 happens: a set_reminder call has run to completion after the longest
\* generate_text call, three quota errors and two waits.
C34_Witness ==
  /\ gen_pc = "idle"
  /\ last.call.op = "set_reminder"
  /\ AllQuota
  /\ Len(outcomes) = 3
  /\ Len(slept) = 2

\* The context is made of the latest exchanges of the history, three of them
\* at most, in the order of the history.
IsRecentContext(context, history) ==
  /\ Len(context) = (IF Len(history) < 3 THEN Len(history) ELSE 3)
  /\ \A j \in 1..Len(context) :
       /\ context[j].user = history[Len(history) - Len(context) + j].user
       /\ context[j].assistant = history[Len(history) - Len(context) + j].assistant

\* C35: the conversation context put into the prompt of a new chat message
\* is made of the exchanges stored under the key of the call before the call,
\* the three latest at most, in the order they were stored; the exchange the
\* call creates and the exchanges of other keys are no part of it.
C35_ContextIsLastThreeOfKey ==
  [][/\ \A m \in ContextMessages :
          (/\ agent_ret'.op = "general_chat"
           /\ general_chat(m)) =>
            IsRecentContext(agent_ret'.context, chat_history)
     /\ \A k \in 0..(Len(current_emails) - 1), m \in KeyQuestions :
          (/\ agent_ret'.op = "chat_with_email"
           /\ agent_ret'.email_index = k
           /\ chat_with_email(current_emails[k + 1], m, k)) =>
            IsRecentContext(agent_ret'.context, Get(chat_histories, k, <<>>))]_vars

\* C35 happens: the fifth chat under key 1 was answered with the second, third
\* and fourth exchange as its context, which are not all the same.
C35_Witness ==
  /\ agent_ret.op = "chat_with_email"
  /\ agent_ret.email_index = 1
  /\ Len(chat_histories[1]) = 5
  /\ Len(agent_ret.context) = 3
  /\ agent_ret.context[1].user = chat_histories[1][2].user
  /\ agent_ret.context[3].user = chat_histories[1][4].user
  /\ chat_histories[1][1].user # chat_histories[1][4].user
  /\ chat_histories[1][4].user # chat_histories[1][5].user

\* C36: whichever path answers a general_chat call (the endpoint's answer,
\* the answer made on the spot for a message about the numbers or about tips,
\* the fallback of an error), the exchange is the latest entry of the stored
\* general-chat history after the call, and the history returned is the whole
\* stored history, every entry as the user's message followed by the
\* assistant's answer.
C36_EveryPathStoresAndReturnsAll ==
  [][\A m \in ChatMessages :
       (/\ agent_ret'.op = "general_chat"
        /\ general_chat(m)) =>
         (/\ chat_history' # <<>>
          /\ chat_history'[Len(chat_history')].user = m
          /\ chat_history'[Len(chat_history')].assistant = agent_ret'.ret[1]
          /\ Len(agent_ret'.ret[2]) = 2 * Len(chat_history')
          /\ \A k \in 1..Len(chat_history') :
               /\ agent_ret'.ret[2][2 * k - 1] =
                    [role |-> "user", content |-> chat_history'[k].user]
               /\ agent_ret'.ret[2][2 * k] =
                    [role |-> "assistant", content |-> chat_history'[k].assistant])]_vars

\* C37: set_reminder_for_email, chat_about_email and generate_reply_for_email
\* called with an index outside 0..len(current_emails)-1 return None,
\* ('Invalid email index', []) and 'Invalid email index', and the reminders,
\* the id counter, the general chat history and the histories of the emails
\* are as before the call.
C37_InvalidIndexChangesNothing ==
  [][\A i \in EmailIndexes \ (0..(Len(current_emails) - 1)) :
       /\ \A c \in FormReminders :
            (/\ last'.call.op \in {"set_reminder", "set_reminder_for_email"}
             /\ set_reminder_for_email(i, c)) =>
              (/\ last'.ret = None
               /\ UNCHANGED <<reminders, reminder_id_counter, chat_history, chat_histories>>)
       /\ \A m \in EmailQuestions :
            (/\ agent_ret'.op \in {"chat_about_email", "chat_with_email"}
             /\ chat_about_email(i, m)) =>
              (/\ agent_ret'.ret = << <<"I","n","v","a","l","i","d"," ","e","m","a","i","l"," ","i","n","d","e","x">>, <<>> >>
               /\ UNCHANGED <<reminders, reminder_id_counter, chat_history, chat_histories>>)
       /\ \A tone \in {"professional", "angry"} :
            (/\ agent_ret'.op \in {"generate_reply_for_email", "generate_reply"}
             /\ generate_reply_for_email(i, tone)) =>
              (/\ agent_ret'.ret = <<"I","n","v","a","l","i","d"," ","e","m","a","i","l"," ","i","n","d","e","x">>
               /\ UNCHANGED <<reminders, reminder_id_counter, chat_history, chat_histories>>)]_vars

\* C37 happens: a reminder asked for at position -1 returned None while a
\* reminder and a chat about an email were stored, and a reply asked for at a
\* position after the last returned the fixed text.
C37_Witness ==
  /\ last.call.op = "set_reminder_for_email"
  /\ last.call.email_index = -1
  /\ last.ret = None
  /\ reminders # <<>>
  /\ KeyChats > 0
  /\ agent_ret.op = "generate_reply_for_email"
  /\ agent_ret.email_index = Len(current_emails)

\* C38: an account for an email comes into a session's users only by
\* complete_registration for that email while its OTP is marked verified;
\* the mark is set only by verify_otp called with the OTP stored for the
\* email, which is the one issued by the latest initiate_registration or
\* resend_otp, every one of which stores its OTP unverified; and a
\* registration never succeeds for an email that has an account in the users
\* file.
C38_AccountOnlyAfterVerification ==
  [][\A s \in DOMAIN auth_users, e \in AuthEmails :
       /\ (e \notin DOMAIN auth_users[s] /\ e \in DOMAIN auth_users'[s]) =>
            (/\ auth_ret'.op = "complete_registration"
             /\ auth_ret'.session = s
             /\ auth_ret'.email = e
             /\ e \in DOMAIN otp_storage[s]
             /\ otp_storage[s][e].verified)
       /\ (/\ e \in DOMAIN otp_storage'[s]
           /\ otp_storage'[s][e].verified
           /\ ~(e \in DOMAIN otp_storage[s] /\ otp_storage[s][e].verified)) =>
            (/\ auth_ret'.op = "verify_otp"
             /\ auth_ret'.session = s
             /\ auth_ret'.email = e
             /\ e \in DOMAIN otp_storage[s]
             /\ auth_ret'.otp = otp_storage[s][e].otp
             /\ otp_storage'[s][e].otp = otp_storage[s][e].otp)
       /\ (/\ e \in DOMAIN otp_storage'[s]
           /\ (e \in DOMAIN otp_storage[s] => otp_storage'[s][e].otp # otp_storage[s][e].otp)) =>
            (/\ auth_ret'.op = "initiate_registration"
             /\ auth_ret'.session = s
             /\ auth_ret'.email = e)
       /\ (/\ auth_ret'.op = "initiate_registration"
           /\ auth_ret'.session = s
           /\ auth_ret'.email = e
           /\ \E otp \in Otps, sent \in BOOLEAN : initiate_registration(s, e, otp, sent)
           /\ auth_ret'.ret[1]) =>
            (/\ otp_storage'[s][e].otp = auth_ret'.otp
             /\ ~otp_storage'[s][e].verified)
       /\ (/\ auth_ret'.op = "complete_registration"
           /\ auth_ret'.session = s
           /\ auth_ret'.email = e
           /\ \E password \in Passwords, saved \in BOOLEAN :
                complete_registration(s, e, password, saved)
           /\ auth_ret'.ret[1]) =>
            e \notin DOMAIN users_file]_vars

\* C39: a call on an AuthSystem that reports failure leaves the accounts, in
\* the session and in the users file, as they were: after a failed
\* initiate_registration no OTP is pending for the email, after a failed
\* complete_registration an email that had no account has none, and after a
\* failed delete_account the account is in place.
C39_FailureLeavesAccountsAlone ==
  [][\A e \in AuthEmails :
       /\ \A otp \in Otps, sent \in BOOLEAN :
            (/\ auth_ret'.op = "initiate_registration"
             /\ initiate_registration(1, e, otp, sent)
             /\ ~auth_ret'.ret[1]) =>
              (/\ e \notin DOMAIN otp_storage'[1]
               /\ UNCHANGED <<users_file, auth_users>>)
       /\ \A password \in Passwords, saved \in BOOLEAN :
            (/\ auth_ret'.op = "complete_registration"
             /\ complete_registration(1, e, password, saved)
             /\ ~auth_ret'.ret[1]) =>
              (/\ e \notin DOMAIN auth_users[1] => e \notin DOMAIN auth_users'[1]
               /\ UNCHANGED <<users_file, auth_users>>)
       /\ \A password \in Passwords, saved \in BOOLEAN :
            (/\ auth_ret'.op = "delete_account"
             /\ delete_account(1, e, password, saved)
             /\ ~auth_ret'.ret[1]) =>
              (/\ e \in DOMAIN auth_users[1] => e \in DOMAIN auth_users'[1]
               /\ UNCHANGED <<users_file, auth_users>>)]_vars

\* C40: with two sessions over one users file, every email whose registration
\* completed successfully, in either session, has its account in the users
\* file until a delete_account of it succeeds.
C40_CompletedRegistrationsStayOnFile ==
  \A e \in registered : e \in DOMAIN users_file

====
